---- MODULE Spec2Model ----
(***************************************************************************)
(* Model of the mock server's state-machine transition handler             *)
(* (packages/mock-server/src/handlers/transition-handler.js) together with *)
(* the transition engine and the record store it calls.                    *)
(***************************************************************************)
EXTENDS Integers, Sequences, FiniteSets, TLC

\* ------------------------------------------------------------------------
\* Bounds
\* ------------------------------------------------------------------------
\* writes by other code paths that may fall between a handler's read and write
MaxOtherWrites == 1

\* ------------------------------------------------------------------------
\* JavaScript values
\* ------------------------------------------------------------------------
NULL == "null"
UNDEF == "undefined"

Fields == {"status", "assignedToId", "priority"}
Ids == {"task-1", "task-2"}
Callers == {"worker-1", "worker-2"}
\* value of req.headers['x-caller-id']: absent, sent empty, or a caller id
Headers == Callers \cup {UNDEF, ""}
Triggers == {"claim", "complete", "release", "cancel"}
ErrMsgs == {"database is locked", "disk I/O error"}
NoError == ""
ThrowPoints == {"none", "findById", "findTransition", "evaluateGuards",
                "applyEffects", "update"}
Slots == {1, 2}

\* a record of the store; a key that is not present reads as undefined
NoResource == [f \in Fields |-> UNDEF]
NoDiff == [f \in Fields |-> UNDEF]
Keys(obj) == {f \in Fields : obj[f] # UNDEF}

\* ------------------------------------------------------------------------
\* Contracts
\* ------------------------------------------------------------------------
sampleStateMachine ==
  [guards |-> [taskIsUnassigned |->
                 [field |-> "assignedToId", operator |-> "is_null", value |-> UNDEF],
               callerIsAssignedWorker |->
                 [field |-> "assignedToId", operator |-> "equals", value |-> "$caller.id"]],
   transitions |-> <<
     [trigger |-> "claim", from |-> "pending", to |-> "in_progress",
      guards |-> <<"taskIsUnassigned">>,
      effects |-> <<[type |-> "set", field |-> "assignedToId", value |-> "$caller.id"]>>],
     [trigger |-> "complete", from |-> "in_progress", to |-> "completed",
      guards |-> <<"callerIsAssignedWorker">>,
      effects |-> << >>],
     [trigger |-> "release", from |-> "in_progress", to |-> "pending",
      guards |-> <<"callerIsAssignedWorker">>,
      effects |-> <<[type |-> "set", field |-> "assignedToId", value |-> NULL]>>] >>]

\* a contract that uses the remaining features of the contract format: a
\* trigger with two source states, a self-transition, an effect on `status`,
\* an effect that sets a value the record may already hold, two guards on one
\* transition, a guard name with no definition, an unknown operator, an
\* unknown effect type, and a transition made of nothing else
edgeStateMachine ==
  [guards |-> [taskIsUnassigned |->
                 [field |-> "assignedToId", operator |-> "is_null", value |-> UNDEF],
               isLow |->
                 [field |-> "priority", operator |-> "equals", value |-> "low"],
               future |->
                 [field |-> "priority", operator |-> "future_op", value |-> UNDEF]],
   transitions |-> <<
     [trigger |-> "claim", from |-> "pending", to |-> "in_progress",
      guards |-> <<"isLow", "taskIsUnassigned">>,
      effects |-> <<[type |-> "set", field |-> "priority", value |-> "low"],
                    [type |-> "set", field |-> "assignedToId", value |-> "$caller.id"]>>],
     [trigger |-> "claim", from |-> "in_progress", to |-> "in_progress",
      guards |-> <<"nonExistent", "future">>,
      effects |-> <<[type |-> "unknown_type", field |-> "priority", value |-> "high"],
                    [type |-> "set", field |-> "status", value |-> "completed"],
                    [type |-> "set", field |-> "assignedToId", value |-> "$caller.id"]>>],
     [trigger |-> "cancel", from |-> "pending", to |-> "cancelled",
      guards |-> << >>,
      effects |-> <<[type |-> "set", field |-> "assignedToId", value |-> NULL]>>],
     [trigger |-> "cancel", from |-> "in_progress", to |-> "cancelled",
      guards |-> <<"future">>,
      effects |-> <<[type |-> "set", field |-> "status", value |-> "pending"]>>],
     [trigger |-> "release", from |-> "in_progress", to |-> "pending",
      guards |-> <<"future">>,
      effects |-> <<[type |-> "unknown_type", field |-> "assignedToId",
                     value |-> NULL]>>] >>]

Contracts == {sampleStateMachine, edgeStateMachine}

InitialResources ==
  { [status |-> "pending", assignedToId |-> NULL, priority |-> "low"],
    [status |-> "pending", assignedToId |-> UNDEF, priority |-> "high"],
    [status |-> "in_progress", assignedToId |-> "worker-1", priority |-> "low"] }

VARIABLES stateMachine, db, created, last, claimed, pc, inflight, nother,
          heap, call, run, fs, disc, routes, gen

\* the state of the schema tooling: a heap of JSON objects, the latest call of
\* a path function, the applyOverlay invocation, the specs directory and the
\* latest discovery, the registration of the RPC routes and the latest call of
\* the RPC overlay generator
schemaVars == <<heap, call, run, fs, disc, routes, gen>>

handlerVars == <<stateMachine, db, created, last, claimed, pc, inflight, nother>>

vars == <<stateMachine, db, created, last, claimed, pc, inflight, nother,
          heap, call, run, fs, disc, routes, gen>>

\* no schema tooling runs while the mock server serves requests
SchemasIdle ==
  /\ heap = << >>
  /\ call = << >>
  /\ run = << >>
  /\ fs = << >>
  /\ disc = << >>
  /\ routes = << >>
  /\ gen = << >>

\* ------------------------------------------------------------------------
\* Transition engine (state-machine-engine.js)
\* ------------------------------------------------------------------------
CallerRefs == {"$caller.id", "$caller.name", "$caller.missing"}

CallerAttr(raw) ==
  CASE raw = "$caller.id" -> "id"
    [] raw = "$caller.name" -> "name"
    [] OTHER -> "missing"

resolveValue(raw, context) ==
  IF raw = NULL \/ raw = UNDEF THEN NULL
  ELSE IF raw \in CallerRefs
       THEN IF CallerAttr(raw) \in DOMAIN context.caller
            THEN context.caller[CallerAttr(raw)]
            ELSE NULL
       ELSE raw

evaluateGuard(guard, resource, context) ==
  CASE guard.operator = "is_null" ->
         IF resource[guard.field] = NULL \/ resource[guard.field] = UNDEF
         THEN [pass |-> TRUE, reason |-> << >>]
         ELSE [pass |-> FALSE, reason |-> <<guard.field, "must be null">>]
    [] guard.operator = "equals" ->
         IF resource[guard.field] = resolveValue(guard.value, context)
         THEN [pass |-> TRUE, reason |-> << >>]
         ELSE [pass |-> FALSE,
               reason |-> <<guard.field, "must equal", resolveValue(guard.value, context)>>]
    [] OTHER -> [pass |-> TRUE, reason |-> << >>]

\* a list of guard names, or null
NullList == [null |-> TRUE, names |-> << >>]

List(names) == [null |-> FALSE, names |-> names]

\* `evaluated` lists the guards that evaluateGuard was called on, in order
AllPass == [pass |-> TRUE, failedGuard |-> NULL, reason |-> << >>, evaluated |-> << >>]

RECURSIVE evaluateGuardsFrom(_, _, _, _, _)
evaluateGuardsFrom(i, guardNames, guardsMap, resource, context) ==
  IF i > Len(guardNames) THEN AllPass
  ELSE IF guardNames[i] \notin DOMAIN guardsMap
       THEN evaluateGuardsFrom(i + 1, guardNames, guardsMap, resource, context)
       ELSE LET r == evaluateGuard(guardsMap[guardNames[i]], resource, context)
                rest == evaluateGuardsFrom(i + 1, guardNames, guardsMap, resource, context)
            IN IF r.pass
               THEN [rest EXCEPT !.evaluated = <<guardNames[i]>> \o @]
               ELSE [pass |-> FALSE, failedGuard |-> guardNames[i],
                     reason |-> r.reason, evaluated |-> <<guardNames[i]>>]

evaluateGuards(guardNames, guardsMap, resource, context) ==
  IF guardNames.null THEN AllPass
  ELSE evaluateGuardsFrom(1, guardNames.names, guardsMap, resource, context)

\* `transition` is the index of the matched entry of stateMachine.transitions,
\* 0 standing for null
findTransition(sm, trigger, resource) ==
  LET matching == {i \in 1..Len(sm.transitions) : sm.transitions[i].trigger = trigger}
      eligible == {i \in matching : sm.transitions[i].from = resource["status"]}
  IN IF matching = {}
     THEN [transition |-> 0, error |-> <<"Unknown trigger", trigger>>]
     ELSE IF eligible = {}
          THEN [transition |-> 0, error |-> <<"Cannot", trigger, resource["status"]>>]
          ELSE [transition |-> CHOOSE i \in eligible : \A j \in eligible : i <= j,
                error |-> << >>]

applySetEffect(effect, resource, context) ==
  [resource EXCEPT ![effect.field] = resolveValue(effect.value, context)]

RECURSIVE applyEffectsFrom(_, _, _, _)
applyEffectsFrom(i, effects, resource, context) ==
  IF i > Len(effects) THEN resource
  ELSE applyEffectsFrom(i + 1, effects,
         IF effects[i].type = "set"
         THEN applySetEffect(effects[i], resource, context)
         ELSE resource,
         context)

applyEffects(effects, resource, context) ==
  applyEffectsFrom(1, effects, resource, context)

\* ------------------------------------------------------------------------
\* Record store (database-manager.js)
\* ------------------------------------------------------------------------
findById(dbv, id) == dbv[id]

\* the stored record with the given keys overwritten
updateRecord(record, diff) ==
  [f \in Fields |-> IF diff[f] # UNDEF THEN diff[f] ELSE record[f]]

update(dbv, id, diff) == [dbv EXCEPT ![id] = updateRecord(dbv[id], diff)]

\* ------------------------------------------------------------------------
\* Transition handler (handlers/transition-handler.js)
\* ------------------------------------------------------------------------
\* the header compared with null instead of tested for a usable value
CallerIdIsNull(callerId) == callerId = NULL

\* !callerId
CallerIdMissing(callerId) == callerId = UNDEF \/ callerId = ""

\* !resource
ResourceMissing(resource) == resource = NoResource

\* only an unknown trigger treated as a miss
TransitionMissingUnknownTrigger(found) ==
  found.transition = 0 /\ found.error[1] = "Unknown trigger"

\* !transition
TransitionMissing(found) == found.transition = 0

\* the result object tested instead of its `pass` field: an object is never
\* falsy
GuardResultFalsy(guardResult) == guardResult \in {}

\* !guardResult.pass
GuardsRejected(guardResult) == ~guardResult.pass

\* the caller id stored under another key of the caller
CallerContextWrongKey(callerId) == [caller |-> [name |-> callerId]]

\* const context = { caller: { id: callerId } }
CallerContext(callerId) == [caller |-> [id |-> callerId]]

\* status assigned before the effects run
StatusThenEffects(transition, resource, context) ==
  applyEffects(transition.effects, [resource EXCEPT !["status"] = transition.to], context)

\* status assignment left out
EffectsOnly(transition, resource, context) ==
  applyEffects(transition.effects, resource, context)

\* the clone with its status set and the effects left out
CloneStatusOnly(transition, resource, context) ==
  [resource EXCEPT !["status"] = transition.to]

\* const updated = { ...resource }; applyEffects(...); updated.status = transition.to
CloneApplyEffects(transition, resource, context) ==
  [applyEffects(transition.effects, resource, context) EXCEPT !["status"] = transition.to]

\* status always written
DiffWithStatus(resource, updated) ==
  [f \in Fields |-> IF f \in Keys(updated) /\ (f = "status" \/ resource[f] # updated[f])
                    THEN updated[f] ELSE UNDEF]

\* the updated copy compared with itself
DiffAgainstItself(resource, updated) ==
  [f \in Fields |-> IF f \in Keys(updated) /\ updated[f] # updated[f]
                    THEN updated[f] ELSE UNDEF]

\* the whole updated copy written
FullRecord(resource, updated) ==
  [f \in Fields |-> IF f \in Keys(updated) THEN updated[f] ELSE UNDEF]

\* the loop over Object.entries(updated) that fills diff
ComputeDiff(resource, updated) ==
  [f \in Fields |-> IF f \in Keys(updated) /\ resource[f] # updated[f]
                    THEN updated[f] ELSE UNDEF]

\* what one invocation did: the request, the calls made to the engine and the
\* store in order, the values computed, and the response sent (res)
NewInvocation(trigger, req) ==
  [id |-> req.id, trigger |-> trigger, callerId |-> req.callerId,
   throwAt |-> req.throwAt, err |-> req.err,
   calls |-> << >>, resource |-> NoResource, transition |-> 0,
   failedGuard |-> NULL, updated |-> NoResource, diff |-> NoDiff,
   res |-> << >>]

Response(status, code, message, details, body) ==
  [status |-> status, code |-> code, message |-> message,
   details |-> details, body |-> body]

Called(inv, name) == [inv EXCEPT !.calls = Append(@, name)]

Respond(inv, response) == [inv EXCEPT !.res = Append(@, response)]

\* the exception's message left out of the body
CatchResponseNoDetails(message) ==
  Response(500, "INTERNAL_ERROR", <<"An unexpected error occurred">>, << >>, NoResource)

\* the catch block
CatchResponse(message) ==
  Response(500, "INTERNAL_ERROR", <<"An unexpected error occurred">>,
           <<[message |-> <<message>>]>>, NoResource)

Catch(inv, message) == Respond(inv, CatchResponse(message))

Throws(inv, name) == inv.throwAt = name

\* a write that first compares the stored record with the one loaded
PersistIfUnchanged(inv, dbv) ==
  IF findById(dbv, inv.id) # inv.resource
  THEN Respond(inv, Response(409, "CONFLICT", <<"Resource was modified">>,
                             << >>, NoResource))
  ELSE LET c == Called(inv, "update")
       IN IF Throws(inv, "update") THEN Catch(c, inv.err)
          ELSE Respond(c, Response(200, "OK", << >>, << >>,
                                   findById(update(dbv, inv.id, inv.diff), inv.id)))

\* const result = update(resourceName, resourceId, diff); res.json(result)
Persist(inv, dbv) ==
  LET c == Called(inv, "update")
  IN IF Throws(inv, "update") THEN Catch(c, inv.err)
     ELSE Respond(c, Response(200, "OK", << >>, << >>,
                              findById(update(dbv, inv.id, inv.diff), inv.id)))

\* the store after the invocation: written only by a call of update that returned
Stored(inv, dbv) ==
  IF inv.calls # << >> /\ inv.calls[Len(inv.calls)] = "update" /\ ~Throws(inv, "update")
  THEN update(dbv, inv.id, inv.diff)
  ELSE dbv

\* effects and status applied to the loaded record itself, no copy made
ComputeInPlace(inv, sm, resource, context) ==
  LET c == Called(inv, "applyEffects")
      transition == sm.transitions[inv.transition]
      updated == CloneApplyEffects(transition, resource, context)
  IN IF Throws(inv, "applyEffects") THEN Catch(c, inv.err)
     ELSE [c EXCEPT !.resource = updated, !.updated = updated,
                    !.diff = ComputeDiff(updated, updated)]

\* lines 64-75: clone, effects, status, diff
Compute(inv, sm, resource, context) ==
  LET c == Called(inv, "applyEffects")
      transition == sm.transitions[inv.transition]
      updated == CloneApplyEffects(transition, resource, context)
  IN IF Throws(inv, "applyEffects") THEN Catch(c, inv.err)
     ELSE [c EXCEPT !.updated = updated, !.diff = ComputeDiff(resource, updated)]

\* transition.guards: the list of the contract, null when it has none
GuardNames(transition) ==
  IF "guards" \in DOMAIN transition THEN List(transition.guards) ELSE NullList

\* the guard definitions ignored
GuardsMapEmpty(sm) == << >>

\* stateMachine.guards || {}
GuardsMapOf(sm) == IF "guards" \in DOMAIN sm THEN sm.guards ELSE << >>

\* lines 50-55: the call of evaluateGuards
TransitionGuards(transition, sm, resource, context) ==
  evaluateGuards(GuardNames(transition), GuardsMapOf(sm), resource, context)

\* lines 48-62: guards (reading transition.guards of a null transition is a
\* TypeError, which the catch block reports)
Guarded(inv, sm, resource) ==
  LET c == Called(inv, "evaluateGuards")
      context == CallerContext(inv.callerId)
      guardResult == TransitionGuards(sm.transitions[inv.transition], sm,
                                      resource, context)
  IN IF inv.transition = 0
     THEN Catch(inv, "Cannot read properties of null")
     ELSE IF Throws(inv, "evaluateGuards") THEN Catch(c, inv.err)
     ELSE IF GuardsRejected(guardResult)
          THEN Respond([c EXCEPT !.failedGuard = guardResult.failedGuard],
                       Response(409, "CONFLICT",
                                <<"Guard", guardResult.failedGuard, "failed">>
                                  \o guardResult.reason,
                                << >>, NoResource))
          ELSE Compute(c, sm, resource, context)

\* a lookup by trigger alone, the record's status left out
LookedByTriggerOnly(inv, sm, resource) ==
  LET c == Called(inv, "findTransition")
      matching == {i \in 1..Len(sm.transitions) : sm.transitions[i].trigger = inv.trigger}
  IN IF Throws(inv, "findTransition") THEN Catch(c, inv.err)
     ELSE IF matching = {}
          THEN Respond(c, Response(409, "CONFLICT", <<"Unknown trigger", inv.trigger>>,
                                   << >>, NoResource))
          ELSE Guarded([c EXCEPT !.transition =
                          CHOOSE i \in matching : \A j \in matching : i <= j],
                       sm, resource)

\* lines 39-46: transition lookup
Looked(inv, sm, resource) ==
  LET c == Called(inv, "findTransition")
      found == findTransition(sm, inv.trigger, resource)
  IN IF Throws(inv, "findTransition") THEN Catch(c, inv.err)
     ELSE IF TransitionMissing(found)
          THEN Respond(c, Response(409, "CONFLICT", found.error, << >>, NoResource))
          ELSE Guarded([c EXCEPT !.transition = found.transition], sm, resource)

\* lines 30-37: load
Loaded(inv, sm, dbv) ==
  LET c == Called(inv, "findById")
      resource == findById(dbv, inv.id)
  IN IF Throws(inv, "findById") THEN Catch(c, inv.err)
     ELSE IF ResourceMissing(resource)
          THEN Respond(c, Response(404, "NOT_FOUND",
                                   <<"Resource not found", inv.id>>, << >>, NoResource))
          ELSE Looked([c EXCEPT !.resource = resource], sm, resource)

\* lines 19-75: everything before the call of update; an invocation that has
\* not responded yet is about to persist its diff
BeforePersist(sm, trigger, req, dbv) ==
  LET inv == NewInvocation(trigger, req)
  IN IF CallerIdMissing(req.callerId)
     THEN Respond(inv, Response(400, "BAD_REQUEST",
                    <<"X-Caller-Id header is required for state transitions">>,
                    << >>, NoResource))
     ELSE Loaded(inv, sm, dbv)

\* the handler returned by createTransitionHandler(resourceName, stateMachine,
\* trigger, paramName), run on one request against the store dbv
createTransitionHandler(sm, trigger, req, dbv) ==
  LET inv == BeforePersist(sm, trigger, req, dbv)
  IN IF inv.res # << >> THEN inv ELSE Persist(inv, dbv)

\* the requests sent to the server; a fault (a call that throws) is injected
\* into requests of worker-1, and a failing read also into a request that
\* carries no caller
Requests ==
  [id : Ids, callerId : Headers, throwAt : {"none"}, err : {NoError}]
    \cup [id : Ids, callerId : {"worker-1"}, throwAt : ThrowPoints \ {"none"},
          err : ErrMsgs]
    \cup [id : Ids, callerId : {UNDEF}, throwAt : {"findById"}, err : ErrMsgs]

\* ------------------------------------------------------------------------
\* State machine of the server: requests are handled one at a time, each
\* handler invocation running to completion (the handler is synchronous)
\* ------------------------------------------------------------------------
NoInvocation ==
  NewInvocation("claim", [id |-> "task-1", callerId |-> UNDEF,
                          throwAt |-> "none", err |-> NoError])

HandlerInit ==
  /\ stateMachine \in Contracts
  /\ db \in {[id \in Ids |-> IF id = "task-1" THEN r ELSE NoResource] :
               r \in InitialResources}
  /\ created = db
  /\ last = NoInvocation
  /\ claimed = [id \in Ids |-> {}]
  /\ pc = [s \in Slots |-> "idle"]
  /\ inflight = [s \in Slots |-> NoInvocation]
  /\ nother = 0

Init ==
  /\ HandlerInit
  /\ SchemasIdle

\* the mock server while the schema tooling runs: one contract, one record
HandlerIdle ==
  /\ HandlerInit
  /\ stateMachine = sampleStateMachine
  /\ db["task-1"].status = "in_progress"

Succeeded(inv) == inv.res # << >> /\ inv.res[Len(inv.res)].status = 200

\* the callers whose claim of a record returned 200 since the last successful
\* transition of that record by another trigger
Claimed(inv) ==
  IF Succeeded(inv)
  THEN [claimed EXCEPT ![inv.id] =
          IF inv.trigger = "claim" THEN @ \cup {inv.callerId} ELSE {}]
  ELSE claimed

\* POST <itemPath>/<trigger>
Transition(trigger, req) ==
  /\ LET inv == createTransitionHandler(stateMachine, trigger, req, db)
     IN /\ last' = inv
        /\ db' = Stored(inv, db)
        /\ claimed' = Claimed(inv)
  /\ UNCHANGED <<stateMachine, created, pc, inflight, nother>>
  /\ UNCHANGED schemaVars

Next == \E trigger \in Triggers, req \in Requests : Transition(trigger, req)

Spec == Init /\ [][Next]_vars

\* ------------------------------------------------------------------------
\* The same handler when the store's read and write are separate steps: other
\* code paths (another handler invocation, a PATCH of the record) may act
\* between an invocation's findById and its update
\* ------------------------------------------------------------------------
SplitRequests ==
  [id : {"task-1"}, callerId : Callers, throwAt : {"none"}, err : {NoError}]

FieldValues(f) ==
  CASE f = "status" -> {"cancelled"}
    [] f = "assignedToId" -> {"worker-2"}
    [] OTHER -> {"low", "high"}

\* lines 19-75 of an invocation: it responds at once, or holds its diff (the
\* slots being alike, a higher slot is taken only while the lower ones are in
\* use)
Load(s, trigger, req) ==
  /\ pc[s] = "idle"
  /\ \A r \in Slots : r < s => pc[r] = "loaded"
  /\ LET inv == BeforePersist(stateMachine, trigger, req, db)
     IN IF inv.res # << >>
        THEN /\ last' = inv
             /\ UNCHANGED <<pc, inflight>>
        ELSE /\ pc' = [pc EXCEPT ![s] = "loaded"]
             /\ inflight' = [inflight EXCEPT ![s] = inv]
             /\ UNCHANGED last
  /\ UNCHANGED <<stateMachine, db, created, claimed, nother>>
  /\ UNCHANGED schemaVars

\* lines 77-80 of an invocation, against the store as it is now
Write(s) ==
  /\ pc[s] = "loaded"
  /\ LET inv == Persist(inflight[s], db)
     IN /\ last' = inv
        /\ db' = Stored(inv, db)
        /\ claimed' = Claimed(inv)
  /\ pc' = [pc EXCEPT ![s] = "idle"]
  /\ inflight' = [inflight EXCEPT ![s] = NoInvocation]
  /\ UNCHANGED <<stateMachine, created, nother>>
  /\ UNCHANGED schemaVars

\* another code path updates one field of a stored record
OtherWrite(id, f, v) ==
  /\ nother < MaxOtherWrites
  /\ db[id] # NoResource
  /\ db[id][f] # v
  /\ db' = update(db, id, [NoDiff EXCEPT ![f] = v])
  /\ nother' = nother + 1
  /\ UNCHANGED <<stateMachine, created, last, claimed, pc, inflight>>
  /\ UNCHANGED schemaVars

NextSplit ==
  \/ \E s \in Slots, trigger \in Triggers, req \in SplitRequests : Load(s, trigger, req)
  \/ \E s \in Slots : Write(s)
  \/ \E id \in Ids, f \in Fields : \E v \in FieldValues(f) : OtherWrite(id, f, v)

SpecSplit == Init /\ [][NextSplit]_vars

\* ------------------------------------------------------------------------
\* The handler's call of evaluateGuards (lines 48-55) on any transition, any
\* record and any caller
\* ------------------------------------------------------------------------
MaxGuards == 2

GuardNamePool ==
  {"isLow", "taskIsUnassigned", "callerIsAssignedWorker", "future", "nonExistent"}

\* the lists of at most n guard names
RECURSIVE NameLists(_)
NameLists(n) ==
  IF n = 0 THEN {<< >>}
  ELSE LET shorter == NameLists(n - 1)
       IN shorter \cup {Append(l, g) : l \in shorter, g \in GuardNamePool}

\* transitions with a list of guards, and one without
GuardedTransitions ==
  {[trigger |-> "claim", guards |-> l] : l \in NameLists(MaxGuards)}
    \cup {[trigger |-> "claim"]}

\* a contract that defines the guards of both contracts, and one with no
\* `guards` section
GuardContracts ==
  { [guards |-> edgeStateMachine.guards @@ sampleStateMachine.guards],
    [domain |-> "workflow"] }

GuardResources ==
  InitialResources \cup
    {[status |-> "pending", assignedToId |-> "worker-2", priority |-> "high"]}

GuardsInit ==
  /\ HandlerIdle
  /\ call = [op |-> "none"]
  /\ heap = << >>
  /\ run = << >>
  /\ fs = << >>
  /\ disc = << >>
  /\ routes = << >>
  /\ gen = << >>

EvaluateGuards(transition, sm, resource, callerId) ==
  /\ call.op = "none"
  /\ call' = [op |-> "evaluateGuards", transition |-> transition, sm |-> sm,
              resource |-> resource, callerId |-> callerId,
              ret |-> TransitionGuards(transition, sm, resource,
                                       CallerContext(callerId))]
  /\ UNCHANGED <<handlerVars, routes, gen, heap, run, fs, disc>>

NextGuards ==
  \E transition \in GuardedTransitions, sm \in GuardContracts,
     resource \in GuardResources, callerId \in Callers :
       EvaluateGuards(transition, sm, resource, callerId)

SpecGuards == GuardsInit /\ [][NextGuards]_vars

\* ------------------------------------------------------------------------
\* Overlay resolver (overlay module of the schemas package): JSON values
\* ------------------------------------------------------------------------
\* A value is undefined, null, a scalar, or a reference to an object or array
\* held in the heap; two references to one cell are one JavaScript object.
JsUndefined == [t |-> "undef"]
JsNull == [t |-> "null"]
Str(s) == [t |-> "str", s |-> s]
Ref(a) == [t |-> "ref", r |-> a]

ObjectCell(props) == [kind |-> "obj", props |-> props, items |-> << >>]
ArrayCell(items) == [kind |-> "arr", props |-> << >>, items |-> items]

\* v === undefined || v === null
Nullish(v) == v.t = "undef" \/ v.t = "null"

\* typeof v === 'object'
TypeofObject(v) == v.t = "null" \/ v.t = "ref"

\* Array.isArray(v)
IsArray(h, v) == v.t = "ref" /\ h[v.r].kind = "arr"

\* v.hasOwnProperty(key), for v that is not null or undefined
HasOwn(h, v, key) == v.t = "ref" /\ key \in DOMAIN h[v.r].props

\* v[key], for v that is not null or undefined
Get(h, v, key) == IF HasOwn(h, v, key) THEN h[v.r].props[key] ELSE JsUndefined

\* v[key] = value, for v that is an object or array
Put(h, v, key, value) ==
  [h EXCEPT ![v.r].props = (key :> value) @@ @]

\* delete v[key], for v that is an object or array
Delete(h, v, key) ==
  [h EXCEPT ![v.r].props = [k \in (DOMAIN @) \ {key} |-> @[k]]]

\* { ...a, ...b } for a and b each null, undefined or an object
SpreadProps(h, v) == IF v.t = "ref" THEN h[v.r].props ELSE << >>

Spread(h, a, b) == ObjectCell(SpreadProps(h, b) @@ SpreadProps(h, a))

\* the JSON text of a value: what JSON.stringify and deep equality see
RECURSIVE Json(_, _)
Json(h, v) ==
  IF v.t # "ref" THEN v
  ELSE IF h[v.r].kind = "arr" THEN [t |-> "arr", a |-> h[v.r].items]
  ELSE [t |-> "obj",
        o |-> [k \in DOMAIN h[v.r].props |-> Json(h, h[v.r].props[k])]]

\* ------------------------------------------------------------------------
\* Paths: the tokens of a dotted path, "$" being the `$.` prefix
\* ------------------------------------------------------------------------
\* path.startsWith('$.') ? path.slice(2) : path, then split('.')
CleanParts(path) ==
  IF Len(path) >= 2 /\ path[1] = "$" THEN Tail(path) ELSE path

\* parts.slice(0, n).join('.')
Prefix(parts, n) == SubSeq(parts, 1, n)

\* parts after parts.pop()
Front(parts) == SubSeq(parts, 1, Len(parts) - 1)

Outcome(h, ret, threw) == [heap |-> h, ret |-> ret, threw |-> threw]

\* resolvePath
RECURSIVE resolveFrom(_, _, _, _)
resolveFrom(h, current, parts, i) ==
  IF i > Len(parts) THEN current
  ELSE IF Nullish(current) THEN JsUndefined
  ELSE resolveFrom(h, Get(h, current, parts[i]), parts, i + 1)

resolvePath(h, obj, path) == resolveFrom(h, obj, CleanParts(path), 1)

\* the loop of setAtPath over the intermediate parts; reading a property of
\* null or undefined, or creating one on a scalar, is a TypeError
RECURSIVE setWalk(_, _, _, _)
setWalk(h, current, parts, i) ==
  IF i > Len(parts) THEN Outcome(h, current, FALSE)
  ELSE IF Nullish(current) THEN Outcome(h, current, TRUE)
  ELSE IF Get(h, current, parts[i]) = JsUndefined
       THEN IF current.t # "ref" THEN Outcome(h, current, TRUE)
            ELSE LET h2 == Append(h, ObjectCell(<< >>))
                 IN setWalk(Put(h2, current, parts[i], Ref(Len(h2))),
                            Ref(Len(h2)), parts, i + 1)
       ELSE setWalk(h, Get(h, current, parts[i]), parts, i + 1)

\* typeof value === 'object' && !Array.isArray(value) &&
\* typeof current[lastPart] === 'object' && !Array.isArray(current[lastPart])
Merges(h, existing, value) ==
  /\ TypeofObject(value) /\ ~IsArray(h, value)
  /\ TypeofObject(existing) /\ ~IsArray(h, existing)

setAtPath(h, obj, path, value) ==
  LET parts == CleanParts(path)
      lastPart == parts[Len(parts)]
      w == setWalk(h, obj, Front(parts), 1)
      current == w.ret
      existing == Get(w.heap, current, lastPart)
  IN IF w.threw THEN Outcome(w.heap, JsUndefined, TRUE)
     ELSE IF Nullish(current) THEN Outcome(w.heap, JsUndefined, TRUE)
     ELSE IF Merges(w.heap, existing, value)
          THEN LET h2 == Append(w.heap, Spread(w.heap, existing, value))
               IN Outcome(Put(h2, current, lastPart, Ref(Len(h2))), JsUndefined, FALSE)
          ELSE IF current.t # "ref" THEN Outcome(w.heap, JsUndefined, TRUE)
               ELSE Outcome(Put(w.heap, current, lastPart, value), JsUndefined, FALSE)

\* the loop of removeAtPath and renameAtPath over the intermediate parts:
\* ret is the parent reached; `stopped` when a part was undefined
RECURSIVE walk(_, _, _, _)
walk(h, current, parts, i) ==
  IF i > Len(parts) THEN [ret |-> current, stopped |-> FALSE, threw |-> FALSE]
  ELSE IF Nullish(current) THEN [ret |-> current, stopped |-> FALSE, threw |-> TRUE]
  ELSE IF Get(h, current, parts[i]) = JsUndefined
       THEN [ret |-> current, stopped |-> TRUE, threw |-> FALSE]
       ELSE walk(h, Get(h, current, parts[i]), parts, i + 1)

removeAtPath(h, obj, path) ==
  LET parts == CleanParts(path)
      lastPart == parts[Len(parts)]
      w == walk(h, obj, Front(parts), 1)
  IN IF w.threw THEN Outcome(h, JsUndefined, TRUE)
     ELSE IF w.stopped THEN Outcome(h, JsUndefined, FALSE)
     ELSE IF Nullish(w.ret) THEN Outcome(h, JsUndefined, TRUE)
     ELSE IF w.ret.t # "ref" THEN Outcome(h, JsUndefined, FALSE)
     ELSE Outcome(Delete(h, w.ret, lastPart), JsUndefined, FALSE)

\* ret is the boolean returned
renameAtPath(h, obj, path, newName) ==
  LET parts == CleanParts(path)
      oldName == parts[Len(parts)]
      w == walk(h, obj, Front(parts), 1)
  IN IF w.threw THEN Outcome(h, FALSE, TRUE)
     ELSE IF w.stopped THEN Outcome(h, FALSE, FALSE)
     ELSE IF Nullish(w.ret) THEN Outcome(h, FALSE, TRUE)
     ELSE IF ~HasOwn(h, w.ret, oldName) THEN Outcome(h, FALSE, FALSE)
     ELSE Outcome(Delete(Put(h, w.ret, newName, Get(h, w.ret, oldName)),
                         w.ret, oldName),
                  TRUE, FALSE)

\* checkFrom reporting the whole path instead of the prefix reached
RECURSIVE checkFromWholePath(_, _, _, _)
checkFromWholePath(h, current, parts, i) ==
  IF i > Len(parts)
  THEN [rootExists |-> TRUE, fullPathExists |-> TRUE, missingAt |-> << >>]
  ELSE IF Nullish(current) \/ ~HasOwn(h, current, parts[i])
       THEN [rootExists |-> TRUE, fullPathExists |-> FALSE, missingAt |-> parts]
       ELSE checkFromWholePath(h, Get(h, current, parts[i]), parts, i + 1)

\* the loop of checkPathExists; missingAt is a sequence of parts, << >> for null
RECURSIVE checkFrom(_, _, _, _)
checkFrom(h, current, parts, i) ==
  IF i > Len(parts)
  THEN [rootExists |-> TRUE, fullPathExists |-> TRUE, missingAt |-> << >>]
  ELSE IF Nullish(current) \/ ~HasOwn(h, current, parts[i])
       THEN [rootExists |-> TRUE, fullPathExists |-> FALSE,
             missingAt |-> Prefix(parts, i)]
       ELSE checkFrom(h, Get(h, current, parts[i]), parts, i + 1)

checkPathExists(h, obj, path) ==
  LET parts == CleanParts(path)
  IN IF ~HasOwn(h, obj, parts[1])
     THEN [rootExists |-> FALSE, fullPathExists |-> FALSE, missingAt |-> << >>]
     ELSE checkFrom(h, obj, parts, 1)

rootExists(h, obj, path) == HasOwn(h, obj, CleanParts(path)[1])

\* ------------------------------------------------------------------------
\* The path functions called on a schema document
\* ------------------------------------------------------------------------
MaxCalls == 1

\* {Person: {type: 'object', properties: {name: {type: 'string'}}}}
PersonSpec ==
  << ObjectCell([Person |-> Ref(2)]),
     ObjectCell([type |-> Str("object"), properties |-> Ref(3)]),
     ObjectCell([name |-> Ref(4)]),
     ObjectCell([type |-> Str("string")]) >>

\* {Person: {type: 'object', properties: {name: {type: 'string'}},
\*           example: null, required: ['name']}}
NullableSpec ==
  << ObjectCell([Person |-> Ref(2)]),
     ObjectCell([type |-> Str("object"), properties |-> Ref(3),
                 example |-> JsNull, required |-> Ref(5)]),
     ObjectCell([name |-> Ref(4)]),
     ObjectCell([type |-> Str("string")]),
     ArrayCell(<<"name">>) >>

Specs == {PersonSpec, NullableSpec}

\* the document is the first cell of the heap
Doc == Ref(1)

BasePaths ==
  { <<"Person">>,
    <<"Person", "properties">>,
    <<"Person", "properties", "name">>,
    <<"Person", "properties", "age">>,
    <<"Person", "properties", "age", "enum">>,
    <<"Person", "example">>,
    <<"Person", "example", "city">>,
    <<"Person", "type">>,
    <<"Person", "type", "format">>,
    <<"Person", "required">>,
    <<"Application">>,
    <<"Application", "properties", "status">> }

Paths == BasePaths \cup {<<"$">> \o p : p \in BasePaths}

\* the paths written to
Targets ==
  BasePaths \cup { <<"$", "Person", "properties", "name">>,
                   <<"$", "Person", "example", "city">>,
                   <<"$", "Application">> }

\* the values written: null, a scalar, an object literal, an array literal
Literals ==
  { JsNull, Str("integer"),
    ObjectCell([type |-> Str("integer"), format |-> Str("int32")]),
    ArrayCell(<<"a", "b">>) }

NewNames == {"name", "fullName", "properties"}

\* evaluating a literal: an object or array literal is a new cell
Allocate(h, literal) ==
  IF "kind" \in DOMAIN literal
  THEN [heap |-> Append(h, literal), v |-> Ref(Len(h) + 1)]
  ELSE [heap |-> h, v |-> literal]

NoCall == [op |-> "none", path |-> << >>, value |-> JsUndefined,
           newName |-> "", ret |-> JsUndefined, threw |-> FALSE, n |-> 0]

CallOf(op, path, value, newName, out) ==
  [op |-> op, path |-> path, value |-> value, newName |-> newName,
   ret |-> out.ret, threw |-> out.threw, n |-> call.n + 1]

PathsInit ==
  /\ HandlerIdle
  /\ heap \in Specs
  /\ call = NoCall
  /\ run = << >>
  /\ fs = << >>
  /\ disc = << >>
  /\ routes = << >>
  /\ gen = << >>

SetAtPath(path, literal) ==
  /\ call.n < MaxCalls
  /\ LET a == Allocate(heap, literal)
         out == setAtPath(a.heap, Doc, path, a.v)
     IN /\ heap' = out.heap
        /\ call' = CallOf("setAtPath", path, a.v, "", out)
  /\ UNCHANGED <<handlerVars, routes, gen, run, fs, disc>>

RemoveAtPath(path) ==
  /\ call.n < MaxCalls
  /\ LET out == removeAtPath(heap, Doc, path)
     IN /\ heap' = out.heap
        /\ call' = CallOf("removeAtPath", path, JsUndefined, "", out)
  /\ UNCHANGED <<handlerVars, routes, gen, run, fs, disc>>

RenameAtPath(path, newName) ==
  /\ call.n < MaxCalls
  /\ LET out == renameAtPath(heap, Doc, path, newName)
     IN /\ heap' = out.heap
        /\ call' = CallOf("renameAtPath", path, JsUndefined, newName, out)
  /\ UNCHANGED <<handlerVars, routes, gen, run, fs, disc>>

CheckPathExists(path) ==
  /\ call.n < MaxCalls
  /\ call' = CallOf("checkPathExists", path, JsUndefined, "",
                     Outcome(heap, checkPathExists(heap, Doc, path), FALSE))
  /\ UNCHANGED <<handlerVars, routes, gen, heap, run, fs, disc>>

RootExists(path) ==
  /\ call.n < MaxCalls
  /\ call' = CallOf("rootExists", path, JsUndefined, "",
                     Outcome(heap, rootExists(heap, Doc, path), FALSE))
  /\ UNCHANGED <<handlerVars, routes, gen, heap, run, fs, disc>>

NextPaths ==
  \/ \E path \in Targets, literal \in Literals : SetAtPath(path, literal)
  \/ \E path \in Targets : RemoveAtPath(path)
  \/ \E path \in Targets, newName \in NewNames : RenameAtPath(path, newName)
  \/ \E path \in Paths : CheckPathExists(path)
  \/ \E path \in Paths : RootExists(path)

SpecPaths == PathsInit /\ [][NextPaths]_vars

\* ------------------------------------------------------------------------
\* applyOverlay, one step per iteration of its loop over overlay.actions
\* ------------------------------------------------------------------------
MaxActions == 2

\* the cells reachable from a set of cells
RECURSIVE Reach(_, _)
Reach(h, seen) ==
  LET refs(a) == {h[a].props[k] : k \in DOMAIN h[a].props} \cap
                   {Ref(b) : b \in DOMAIN h}
      more == UNION {{x.r : x \in refs(a)} : a \in seen} \ seen
  IN IF more = {} THEN seen ELSE Reach(h, seen \cup more)

Rank(cells, a) == Cardinality({b \in cells : b <= a})

\* a shallow copy: a new root cell whose members are those of the original
CloneRootOnly(h, v) == [heap |-> Append(h, h[v.r]), v |-> Ref(Len(h) + 1)]

\* JSON.parse(JSON.stringify(v)): new cells for every object and array of v
Clone(h, v) ==
  LET cells == Reach(h, {v.r})
      moved(x) == IF x.t = "ref" THEN Ref(Len(h) + Rank(cells, x.r)) ELSE x
      copy(a) == IF h[a].kind = "arr" THEN ArrayCell(h[a].items)
                 ELSE ObjectCell([k \in DOMAIN h[a].props |-> moved(h[a].props[k])])
  IN [heap |-> h \o [n \in 1..Cardinality(cells) |->
                       copy(CHOOSE a \in cells : Rank(cells, a) = n)],
      v |-> moved(v)]

\* the objects of the overlay's update values, placed after the b cells of
\* the spec: {countyCode: {type: 'string'}}, {type: 'integer', format:
\* 'int32'}, ['a', 'b']
OverlayCells(b) ==
  << ObjectCell([countyCode |-> Ref(b + 2)]),
     ObjectCell([type |-> Str("string")]),
     ObjectCell([type |-> Str("integer"), format |-> Str("int32")]),
     ArrayCell(<<"a", "b">>) >>

Action(target, description, value, remove, rename) ==
  [target |-> target, description |-> description, update |-> value,
   remove |-> remove, rename |-> rename]

\* the actions an overlay is made of; an absent description or rename is
\* UNDEF, an absent update JsUndefined, an absent target the empty path, and
\* remove is TRUE for `remove: true` only
ActionPool(b) ==
  { Action(<<"$", "Person", "properties">>, "Add new field", Ref(b + 1), FALSE, UNDEF),
    Action(<<"$", "Person", "properties", "nonExistent", "enum">>,
           "Update missing field", Ref(b + 4), FALSE, UNDEF),
    Action(<<"$", "Application", "properties", "status">>, UNDEF, Ref(b + 4), FALSE, UNDEF),
    Action(<<"$", "Person", "properties", "name">>, "", JsUndefined, TRUE, UNDEF),
    Action(<<"$", "Person", "properties", "name">>, "Rename name", JsUndefined, FALSE, "fullName"),
    Action(<<"$", "Person">>, UNDEF, JsUndefined, FALSE, "Individual"),
    Action(<<"Person">>, "Drop Person", JsUndefined, TRUE, UNDEF),
    Action(<<"$", "Person", "properties", "age">>, UNDEF, Ref(b + 3), FALSE, UNDEF),
    Action(<<"$", "Person", "properties", "age", "type">>, "Age is a number",
           Str("number"), FALSE, UNDEF),
    Action(<<"$", "Person", "example", "city">>, "Set city", Str("Paris"), FALSE, UNDEF),
    Action(<<"$", "Person", "address", "properties">>, "Add address", Ref(b + 2), FALSE, UNDEF),
    Action(<<"$", "Person", "properties", "age">>, "Drop age", JsUndefined, TRUE, UNDEF),
    Action(<<"$", "Person", "properties", "age">>, "Nothing to do", JsUndefined, FALSE, UNDEF),
    Action(<<"$", "Person", "example", "city">>, "Rename city", JsUndefined, FALSE, "town"),
    Action(<< >>, "No target", Str("x"), FALSE, UNDEF) }

\* the lists of at most n different actions
RECURSIVE ActionLists(_, _)
ActionLists(pool, n) ==
  IF n = 0 THEN {<< >>}
  ELSE LET shorter == ActionLists(pool, n - 1)
       IN shorter \cup
          {Append(x[1], x[2]) :
             x \in {y \in shorter \X pool :
                      /\ Len(y[1]) = n - 1
                      /\ \A k \in 1..Len(y[1]) : y[1][k] # y[2]}}

\* overlay.actions: an array of actions, absent, or something else
Overlays(b) ==
  {[actions |-> "array", items |-> l] : l \in ActionLists(ActionPool(b), MaxActions)}
    \cup {[actions |-> "undefined", items |-> << >>],
          [actions |-> "object", items |-> << >>]}

\* action.description || target
ActionDesc(action) ==
  IF action.description \notin {UNDEF, ""}
  THEN [description |-> action.description]
  ELSE [target |-> action.target]

\* `Target $.${missingAt} does not exist in base schema (action: "${actionDesc}")`
MissingWarning(missingAt, actionDesc) ==
  [text |-> "does not exist in base schema", at |-> missingAt, action |-> actionDesc]

\* `Rename failed for target ${target} (action: "${actionDesc}")`
RenameWarning(target, actionDesc) ==
  [text |-> "Rename failed", at |-> target, action |-> actionDesc]

\* target.endsWith('.properties') && typeof update === 'object'
IsAddingProperties(h, action) ==
  /\ Len(action.target) >= 2
  /\ action.target[Len(action.target)] = "properties"
  /\ TypeofObject(action.update)

\* !target
TargetMissing(action) == action.target = << >>

\* a root check that lets every action through
RootMissingNever(h, result, action) == FALSE

\* !rootExists(result, target)
RootMissing(h, result, action) == ~rootExists(h, result, action.target)

\* a warning kept for the actions that remove, rename or update only
WarnedWhenApplied(h, action, pathCheck, warnings) ==
  IF /\ ~pathCheck.fullPathExists /\ ~IsAddingProperties(h, action)
     /\ (action.remove \/ action.rename # UNDEF \/ action.update # JsUndefined)
  THEN Append(warnings, MissingWarning(pathCheck.missingAt, ActionDesc(action)))
  ELSE warnings

\* lines 192-195: the warning of a target that does not fully exist
Warned(h, action, pathCheck, warnings) ==
  IF ~pathCheck.fullPathExists /\ ~IsAddingProperties(h, action)
  THEN Append(warnings, MissingWarning(pathCheck.missingAt, ActionDesc(action)))
  ELSE warnings

\* lines 185-216 for one action: the warnings and the heap afterwards
Apply(h, result, action, warnings) ==
  LET pathCheck == checkPathExists(h, result, action.target)
      actionDesc == ActionDesc(action)
      warned == Warned(h, action, pathCheck, warnings)
  IN IF action.remove = TRUE
     THEN LET out == removeAtPath(h, result, action.target)
          IN [heap |-> out.heap, warnings |-> warned, threw |-> out.threw]
     ELSE IF action.rename # UNDEF
     THEN LET out == renameAtPath(h, result, action.target, action.rename)
          IN [heap |-> out.heap,
              warnings |-> IF ~out.threw /\ ~out.ret /\ pathCheck.fullPathExists
                           THEN Append(warned, RenameWarning(action.target, actionDesc))
                           ELSE warned,
              threw |-> out.threw]
     ELSE IF action.update # JsUndefined
     THEN LET out == setAtPath(h, result, action.target, action.update)
          IN [heap |-> out.heap, warnings |-> warned, threw |-> out.threw]
     ELSE [heap |-> h, warnings |-> warned, threw |-> FALSE]

\* one iteration of the loop (lines 170-217)
applyAction(h, result, action, warnings) ==
  IF TargetMissing(action) \/ RootMissing(h, result, action)
  THEN [heap |-> h, warnings |-> warnings, threw |-> FALSE]
  ELSE Apply(h, result, action, warnings)

NoAction == Action(<< >>, UNDEF, JsUndefined, FALSE, UNDEF)

\* applyOverlay(spec, overlay) has been called and has not run yet
OverlayInit ==
  /\ HandlerIdle
  /\ \E spec \in Specs :
       /\ heap = spec \o OverlayCells(Len(spec))
       /\ \E overlay \in Overlays(Len(spec)) :
            run = [pc |-> "called", spec |-> Doc, overlay |-> overlay,
                   before |-> Json(heap, Doc),
                   overlayBefore |-> [i \in 1..Len(overlay.items) |->
                                        Json(heap, overlay.items[i].update)],
                   result |-> JsUndefined,
                   warnings |-> << >>, i |-> 0, action |-> NoAction]
  /\ call = NoCall
  /\ fs = << >>
  /\ disc = << >>
  /\ routes = << >>
  /\ gen = << >>

\* lines 162-168: clone the spec; return at once unless overlay.actions is an array
Begin ==
  /\ run.pc = "called"
  /\ LET c == Clone(heap, run.spec)
     IN /\ heap' = c.heap
        /\ run' = [run EXCEPT !.result = c.v,
                              !.pc = IF run.overlay.actions = "array"
                                     THEN "loop" ELSE "returned"]
  /\ UNCHANGED <<handlerVars, routes, gen, call, fs, disc>>

\* lines 170-217: the next action of the list
Step ==
  /\ run.pc = "loop"
  /\ run.i < Len(run.overlay.items)
  /\ LET action == run.overlay.items[run.i + 1]
         out == applyAction(heap, run.result, action, run.warnings)
     IN /\ heap' = out.heap
        /\ run' = [run EXCEPT !.i = @ + 1, !.action = action,
                              !.warnings = out.warnings,
                              !.pc = IF out.threw THEN "threw" ELSE "loop"]
  /\ UNCHANGED <<handlerVars, routes, gen, call, fs, disc>>

\* line 219: return { result, warnings }
Return ==
  /\ run.pc = "loop"
  /\ run.i = Len(run.overlay.items)
  /\ run' = [run EXCEPT !.pc = "returned"]
  /\ UNCHANGED <<handlerVars, routes, gen, heap, call, fs, disc>>

NextOverlay == Begin \/ Step \/ Return

SpecOverlay == OverlayInit /\ [][NextOverlay]_vars

\* ------------------------------------------------------------------------
\* State machine loader: discoverStateMachines, and the generator's variant
\* ------------------------------------------------------------------------
MaxFiles == 2

\* a file name is its stem and the rest
FileNames ==
  { [stem |-> "workflow", suffix |-> "-state-machine.yaml"],
    [stem |-> "intake", suffix |-> "-state-machine.yaml"],
    [stem |-> "workflow", suffix |-> "-openapi.yaml"],
    [stem |-> "case", suffix |-> "-state-machine.yml"] }

\* what reading and parsing a file gives: a document, an exception, or
\* undefined for an empty file
Yaml(doc) == [kind |-> "yaml", doc |-> doc]

InvalidYaml == [kind |-> "invalid", doc |-> << >>]

EmptyFile == [kind |-> "empty", doc |-> << >>]

FileContents ==
  { Yaml([domain |-> "workflow", object |-> "Task", apiSpec |-> "workflow-openapi.yaml"]),
    Yaml([domain |-> "intake", object |-> "Application"]),
    Yaml([object |-> "Task"]),
    Yaml([domain |-> "test"]),
    Yaml([domain |-> "", object |-> "Task"]),
    InvalidYaml, EmptyFile }

\* the directories of at most MaxFiles files
Directories ==
  UNION {[names -> FileContents] :
           names \in {n \in SUBSET FileNames : Cardinality(n) <= MaxFiles}}

\* the orders in which readdirSync may list a directory
Listings(dir) ==
  {l \in [1..Cardinality(DOMAIN dir) -> DOMAIN dir] :
     \A i, j \in 1..Cardinality(DOMAIN dir) : l[i] = l[j] => i = j}

\* file.endsWith('-state-machine.yaml')
EndsWithSuffix(file) == file.suffix = "-state-machine.yaml"

\* stateMachine.domain and the like: undefined when the key is absent
Member(doc, key) == IF key \in DOMAIN doc THEN doc[key] ELSE UNDEF

Falsy(v) == v = UNDEF \/ v = NULL \/ v = ""

\* the test of the domain alone
MissingDomain(content) ==
  content.kind = "empty" \/ Falsy(Member(content.doc, "domain"))

\* !stateMachine || !stateMachine.domain || !stateMachine.object
MissingDomainOrObject(content) ==
  \/ content.kind = "empty"
  \/ Falsy(Member(content.doc, "domain"))
  \/ Falsy(Member(content.doc, "object"))

\* join(specsDir, file)
FilePath(specsDir, file) == <<specsDir, file>>

\* the entry pushed by the loader
LoaderEntry(content, filePath) ==
  [domain |-> Member(content.doc, "domain"),
   object |-> Member(content.doc, "object"),
   apiSpec |-> IF Falsy(Member(content.doc, "apiSpec")) THEN NULL
               ELSE content.doc.apiSpec,
   stateMachine |-> content.doc, filePath |-> filePath]

\* the entry pushed by the generator
GeneratorEntry(content, filePath) ==
  [filePath |-> filePath, stateMachine |-> content.doc]

\* the loop over the listing; `variant` is "loader" or "generator"
RECURSIVE loadFrom(_, _, _, _, _, _)
loadFrom(variant, dir, specsDir, files, i, results) ==
  IF i > Len(files) THEN results
  ELSE LET file == files[i]
           content == dir[file]
           skip == \/ ~EndsWithSuffix(file)
                   \/ content.kind = "invalid"
                   \/ MissingDomainOrObject(content)
           entry == IF variant = "loader"
                    THEN LoaderEntry(content, FilePath(specsDir, file))
                    ELSE GeneratorEntry(content, FilePath(specsDir, file))
       IN loadFrom(variant, dir, specsDir, files, i + 1,
                   IF skip THEN results ELSE Append(results, entry))

\* readdirSync throws for a directory that does not exist
discoverStateMachines(variant, fsv, specsDir, files) ==
  IF specsDir \notin DOMAIN fsv THEN << >>
  ELSE loadFrom(variant, fsv[specsDir], specsDir, files, 1, << >>)

NoDiscovery == [op |-> "none"]

LoaderInit ==
  /\ HandlerIdle
  /\ fs \in {[specs |-> dir] : dir \in Directories}
  /\ disc = NoDiscovery
  /\ routes = << >>
  /\ gen = << >>
  /\ heap = << >>
  /\ call = << >>
  /\ run = << >>

\* the loader's discoverStateMachines(specsDir)
Discover(specsDir, files) ==
  /\ disc = NoDiscovery
  /\ disc' = [op |-> "loader", specsDir |-> specsDir,
              ret |-> discoverStateMachines("loader", fs, specsDir, files)]
  /\ UNCHANGED <<handlerVars, routes, gen, heap, call, run, fs>>

\* the generator's discoverStateMachines(specsDir)
DiscoverForOverlay(specsDir, files) ==
  /\ disc = NoDiscovery
  /\ disc' = [op |-> "generator", specsDir |-> specsDir,
              ret |-> discoverStateMachines("generator", fs, specsDir, files)]
  /\ UNCHANGED <<handlerVars, routes, gen, heap, call, run, fs>>

NextLoader ==
  \/ \E files \in Listings(fs.specs) : Discover("specs", files)
  \/ Discover("nonexistent", << >>)
  \/ \E files \in Listings(fs.specs) : DiscoverForOverlay("specs", files)
  \/ DiscoverForOverlay("nonexistent", << >>)

SpecLoader == LoaderInit /\ [][NextLoader]_vars

\* ------------------------------------------------------------------------
\* RPC routes (route-generator.js) and the RPC overlay generator
\* ------------------------------------------------------------------------
MaxMachines == 2

\* a path is its segments: a literal, a parameter `{name}`, or the Express
\* form `:name` of a parameter
Lit(name) == [kind |-> "lit", name |-> name]

Param(name) == [kind |-> "param", name |-> name]

Colon(name) == [kind |-> "colon", name |-> name]

\* path.includes('{') && path.includes('}')
isItemEndpoint(path) == \E k \in 1..Len(path) : path[k].kind = "param"

\* path.replace(/\{([^}]+)\}/g, ':$1')
convertPathFormat(path) ==
  [k \in 1..Len(path) |-> IF path[k].kind = "param" THEN Colon(path[k].name)
                          ELSE path[k]]

\* basePath.match(/\{([^}]+)\}/): the first parameter, 'id' without one
ParamName(basePath) ==
  LET params == {k \in 1..Len(basePath) : basePath[k].kind = "param"}
  IN IF params = {} THEN "id"
     ELSE basePath[CHOOSE k \in params : \A j \in params : k <= j].name

\* method.toLowerCase()
ToLowerCase(method) ==
  CASE method = "GET" -> "get"
    [] method = "POST" -> "post"
    [] method = "DELETE" -> "delete"
    [] OTHER -> method

\* the value of `transitions` in a parsed contract: a list, a scalar text
\* (whose characters a for...of loop visits) or a mapping
TransitionList(items) == [kind |-> "list", items |-> items]

TransitionText(n) == [kind |-> "string", items |-> [k \in 1..n |-> << >>]]

TransitionMap == [kind |-> "map", items |-> << >>]

\* for (const transition of stateMachine.transitions): undefined and a
\* mapping are not iterable
Iterate(doc) ==
  IF "transitions" \notin DOMAIN doc THEN [threw |-> TRUE, items |-> << >>]
  ELSE IF doc.transitions.kind = "map" THEN [threw |-> TRUE, items |-> << >>]
  ELSE [threw |-> FALSE, items |-> doc.transitions.items]

\* contract files
workflowContract ==
  [domain |-> "workflow", object |-> "Task", apiSpec |-> "workflow-openapi.yaml",
   transitions |-> TransitionList(<<
     [trigger |-> "claim", from |-> "pending", to |-> "in_progress"],
     [trigger |-> "complete", from |-> "in_progress", to |-> "completed"] >>),
   requestBodies |-> [claim |-> [type |-> "object"], complete |-> << >>]]

intakeContract ==
  [domain |-> "intake", object |-> "Application",
   transitions |-> TransitionList(<<
     [trigger |-> "submit", from |-> "draft", to |-> "submitted"],
     [trigger |-> "withdraw", from |-> "draft", to |-> "withdrawn"],
     [trigger |-> "withdraw", from |-> "submitted", to |-> "withdrawn"] >>)]

caseContract ==
  [domain |-> "case", object |-> "Case",
   transitions |-> TransitionList(<<
     [trigger |-> "close", from |-> "open", to |-> "closed"] >>)]

RouteFileContents ==
  { Yaml(workflowContract), Yaml(intakeContract), Yaml(caseContract),
    Yaml([domain |-> "workflow", object |-> "Task", apiSpec |-> "workflow-openapi.yaml"]),
    Yaml([domain |-> "intake", object |-> "Application", transitions |-> TransitionText(3)]),
    Yaml([domain |-> "intake", object |-> "Application", transitions |-> TransitionMap]),
    Yaml([domain |-> "intake", object |-> "Application", transitions |-> TransitionList(<< >>)]),
    Yaml([domain |-> "test"]),
    EmptyFile }

\* the entries discoverStateMachines returns for these files
RouteEntries ==
  { LoaderEntry(content,
                FilePath("specs", [stem |-> content.doc.domain,
                                   suffix |-> "-state-machine.yaml"])) :
      content \in {c \in RouteFileContents : ~MissingDomainOrObject(c)} }

StateMachineLists ==
  UNION {[1..n -> RouteEntries] : n \in 0..MaxMachines}

\* API metadata
Endpoint(method, path) == [method |-> method, path |-> path]

tasksItem == <<Lit("tasks"), Param("taskId")>>

applicationsItem == <<Lit("applications"), Param("applicationId")>>

workflowApi ==
  [name |-> "workflow", title |-> "Workflow API",
   endpoints |-> << Endpoint("GET", <<Lit("tasks")>>),
                    Endpoint("POST", <<Lit("tasks")>>),
                    Endpoint("GET", tasksItem),
                    Endpoint("DELETE", tasksItem) >>]

intakeApi ==
  [name |-> "intake", title |-> "Intake API",
   endpoints |-> << Endpoint("get", applicationsItem) >>]

intakeListApi ==
  [name |-> "intake", title |-> "Intake API (list only)",
   endpoints |-> << Endpoint("GET", <<Lit("applications")>>),
                    Endpoint("DELETE", applicationsItem) >>]

ApiSpecLists ==
  { <<workflowApi, intakeApi>>, <<workflowApi, intakeListApi>>,
    <<intakeListApi, intakeApi>>, << >> }

\* apiSpecs.find(spec => spec.name === sm.domain): 0 stands for undefined
ApiSpecOf(apiSpecs, sm) ==
  LET matches == {k \in 1..Len(apiSpecs) : apiSpecs[k].name = sm.domain}
  IN IF matches = {} THEN 0 ELSE CHOOSE k \in matches : \A j \in matches : k <= j

\* an item endpoint of any method
ItemEndpointOfAnyMethod(apiSpec) ==
  LET items == {k \in 1..Len(apiSpec.endpoints) : isItemEndpoint(apiSpec.endpoints[k].path)}
  IN IF items = {} THEN 0 ELSE CHOOSE k \in items : \A j \in items : k <= j

\* apiSpec.endpoints.find(e => e.method.toLowerCase() === 'get' &&
\* isItemEndpoint(e.path)): 0 stands for undefined
ItemEndpointOf(apiSpec) ==
  LET items == {k \in 1..Len(apiSpec.endpoints) :
                  /\ ToLowerCase(apiSpec.endpoints[k].method) = "get"
                  /\ isItemEndpoint(apiSpec.endpoints[k].path)}
  IN IF items = {} THEN 0 ELSE CHOOSE k \in items : \A j \in items : k <= j

\* the item path itself, the trigger left out
ItemPathOnly(basePath, transition) == basePath

\* `${basePath}/${transition.trigger}`
RpcPath(basePath, transition) == Append(basePath, Lit(Member(transition, "trigger")))

\* createTransitionHandler(apiSpec.name, sm.stateMachine, transition.trigger, paramName)
HandlerOf(apiSpec, sm, transition, paramName) ==
  [resourceName |-> apiSpec.name, stateMachine |-> sm.stateMachine,
   trigger |-> Member(transition, "trigger"), paramName |-> paramName]

\* app.post(expressPath, handler)
PostRoute(apiSpec, sm, transition, basePath) ==
  [method |-> "post",
   path |-> convertPathFormat(RpcPath(basePath, transition)),
   handler |-> HandlerOf(apiSpec, sm, transition, ParamName(basePath))]

\* the entry pushed to registeredEndpoints
RegisteredEndpoint(transition, basePath) ==
  [method |-> "POST",
   path |-> RpcPath(basePath, transition),
   expressPath |-> convertPathFormat(RpcPath(basePath, transition)),
   description |-> <<Member(transition, "trigger"), Member(transition, "from"),
                     Member(transition, "to")>>,
   trigger |-> Member(transition, "trigger")]

\* one iteration of the loop over the state machines (lines 132-178)
registerOne(sm, apiSpecs, appv, registered) ==
  LET skipped == [app |-> appv, registered |-> registered, threw |-> FALSE]
      a == ApiSpecOf(apiSpecs, sm)
  IN IF a = 0 THEN skipped
     ELSE LET apiSpec == apiSpecs[a]
              e == ItemEndpointOf(apiSpec)
          IN IF e = 0 THEN skipped
             ELSE LET basePath == apiSpec.endpoints[e].path
                      it == Iterate(sm.stateMachine)
                  IN IF it.threw
                     THEN [app |-> appv, registered |-> registered, threw |-> TRUE]
                     ELSE [app |-> appv \o [k \in 1..Len(it.items) |->
                                     PostRoute(apiSpec, sm, it.items[k], basePath)],
                           registered |-> registered \o [k \in 1..Len(it.items) |->
                                     RegisteredEndpoint(it.items[k], basePath)],
                           threw |-> FALSE]

\* what extractItemEndpoint returns
EndpointInfos ==
  { [itemPath |-> tasksItem,
     paramRefs |-> <<[ref |-> "#/components/parameters/TaskIdParam",
                      description |-> "The task"]>>,
     tag |-> "Tasks", schemaRef |-> "#/components/schemas/Task"],
    [itemPath |-> applicationsItem,
     paramRefs |-> <<[name |-> "applicationId", required |-> TRUE]>>,
     tag |-> NULL, schemaRef |-> NULL],
    [itemPath |-> applicationsItem, paramRefs |-> << >>,
     tag |-> NULL, schemaRef |-> "#/components/schemas/Application"] }

\* buildOperationId(trigger, objectName)
buildOperationId(trigger, objectName) == <<trigger, objectName>>

\* stateMachine.requestBodies || {}
RequestBodiesOf(contract) ==
  IF "requestBodies" \in DOMAIN contract THEN contract.requestBodies ELSE << >>

\* buildRequestBody(bodyDef): null for no definition and for an empty one
buildRequestBody(requestBodies, trigger) ==
  IF trigger \notin DOMAIN requestBodies THEN NULL
  ELSE IF DOMAIN requestBodies[trigger] = {} THEN NULL
  ELSE [required |-> TRUE, schema |-> requestBodies[trigger]]

\* ref => ref.$ref ? { $ref: ref.$ref } : ref
ParameterOf(ref) == IF "ref" \in DOMAIN ref THEN [ref |-> ref.ref] ELSE ref

\* the responses of every operation
Responses(schemaRef) ==
  [ok |-> IF Falsy(schemaRef) THEN [type |-> "object"] ELSE [ref |-> schemaRef],
   badRequest |-> "./components/responses.yaml#/BadRequest",
   notFound |-> "./components/responses.yaml#/NotFound",
   conflict |-> "./components/responses.yaml#/Conflict",
   internalError |-> "./components/responses.yaml#/InternalError"]

\* the operation built for one transition (lines 167-206)
Operation(contract, endpointInfo, transition) ==
  LET requestBody == buildRequestBody(RequestBodiesOf(contract),
                                      transition.trigger)
  IN [summary |-> [capitalized |-> transition.trigger, lowered |-> contract.object],
      description |-> <<transition.trigger, transition.from, transition.to>>,
      operationId |-> buildOperationId(transition.trigger, contract.object),
      tags |-> IF Falsy(endpointInfo.tag) THEN UNDEF ELSE endpointInfo.tag,
      parameters |-> [k \in 1..Len(endpointInfo.paramRefs) |->
                        ParameterOf(endpointInfo.paramRefs[k])],
      requestBody |-> requestBody,
      responses |-> Responses(endpointInfo.schemaRef)]

\* pathsUpdate[rpcPath] = { post: operation }, for the transitions from i on
RECURSIVE pathsFrom(_, _, _, _, _)
pathsFrom(transitions, i, contract, endpointInfo, pathsUpdate) ==
  IF i > Len(transitions) THEN pathsUpdate
  ELSE LET rpcPath == RpcPath(endpointInfo.itemPath, transitions[i])
           item == [post |-> Operation(contract, endpointInfo, transitions[i])]
       IN pathsFrom(transitions, i + 1, contract, endpointInfo,
                    [k \in DOMAIN pathsUpdate \cup {rpcPath} |->
                       IF k = rpcPath THEN item ELSE pathsUpdate[k]])

\* the update of the `$.paths` action
PathsUpdate(transitions, contract, endpointInfo) ==
  pathsFrom(transitions, 1, contract, endpointInfo, << >>)

\* generateOverlay(stateMachine, endpointInfo): transition.trigger.charAt
\* throws for an element without a trigger
generateOverlay(contract, endpointInfo) ==
  LET it == Iterate(contract)
  IN IF it.threw \/ \E k \in 1..Len(it.items) : "trigger" \notin DOMAIN it.items[k]
     THEN [threw |-> TRUE, ret |-> << >>]
     ELSE [threw |-> FALSE,
           ret |-> [overlay |-> "1.0.0",
                    info |-> [title |-> <<contract.domain, "RPC Overlay">>,
                              version |-> "1.0.0",
                              description |-> <<contract.domain, "-state-machine.yaml">>],
                    actions |-> << [target |-> <<"$", "paths">>,
                                    description |-> <<contract.domain, contract.object>>,
                                    update |-> PathsUpdate(it.items, contract,
                                                           endpointInfo)] >>]]

NoGeneration == [op |-> "none"]

\* registerStateMachineRoutes(app, stateMachines, apiSpecs) has been called
\* on a new Express app
RoutesInit ==
  /\ HandlerIdle
  /\ heap = << >>
  /\ call = << >>
  /\ run = << >>
  /\ fs = << >>
  /\ disc = << >>
  /\ gen = NoGeneration
  /\ \E stateMachines \in StateMachineLists, apiSpecs \in ApiSpecLists :
       routes = [pc |-> "loop", stateMachines |-> stateMachines,
                 apiSpecs |-> apiSpecs, i |-> 0, app |-> << >>,
                 registered |-> << >>]

\* lines 132-178: the next state machine of the list
Register ==
  /\ routes.pc = "loop"
  /\ routes.i < Len(routes.stateMachines)
  /\ LET out == registerOne(routes.stateMachines[routes.i + 1], routes.apiSpecs,
                            routes.app, routes.registered)
     IN routes' = [routes EXCEPT !.i = @ + 1, !.app = out.app,
                                 !.registered = out.registered,
                                 !.pc = IF out.threw THEN "threw" ELSE "loop"]
  /\ UNCHANGED <<handlerVars, heap, call, run, fs, disc, gen>>

\* line 180: return registeredEndpoints
ReturnEndpoints ==
  /\ routes.pc = "loop"
  /\ routes.i = Len(routes.stateMachines)
  /\ routes' = [routes EXCEPT !.pc = "returned"]
  /\ UNCHANGED <<handlerVars, heap, call, run, fs, disc, gen>>

\* the generator's generateOverlay on one of the contracts discovered
GenerateOverlay(k, endpointInfo) ==
  /\ gen = NoGeneration
  /\ routes.i = 0
  /\ gen' = [op |-> "generateOverlay",
             stateMachine |-> routes.stateMachines[k].stateMachine,
             endpointInfo |-> endpointInfo,
             out |-> generateOverlay(routes.stateMachines[k].stateMachine, endpointInfo)]
  /\ UNCHANGED <<handlerVars, heap, call, run, fs, disc, routes>>

NextRoutes ==
  \/ Register
  \/ ReturnEndpoints
  \/ \E k \in 1..Len(routes.stateMachines), endpointInfo \in EndpointInfos :
       GenerateOverlay(k, endpointInfo)

SpecRoutes == RoutesInit /\ [][NextRoutes]_vars

\* ------------------------------------------------------------------------
\* Properties
\* ------------------------------------------------------------------------
StatusOf(inv) == IF inv.res = << >> THEN 0 ELSE inv.res[1].status

CodeOf(inv) == IF inv.res = << >> THEN "" ELSE inv.res[1].code

MessageOf(inv) == IF inv.res = << >> THEN << >> ELSE inv.res[1].message

CallsUpdate(inv) == \E k \in 1..Len(inv.calls) : inv.calls[k] = "update"

\* the transitions of the contract with this trigger, and those of them that
\* leave from this status
WithTrigger(trigger) ==
  {k \in 1..Len(stateMachine.transitions) :
     stateMachine.transitions[k].trigger = trigger}

EligibleFor(trigger, status) ==
  {k \in WithTrigger(trigger) : stateMachine.transitions[k].from = status}

\* the named guards of transition k that fail on this record for this caller
FailingGuards(k, record, callerId) ==
  {g \in 1..Len(stateMachine.transitions[k].guards) :
     LET name == stateMachine.transitions[k].guards[g]
     IN /\ name \in DOMAIN stateMachine.guards
        /\ LET guard == stateMachine.guards[name]
               wanted == IF guard.value = "$caller.id" THEN callerId
                         ELSE IF guard.value = UNDEF THEN NULL ELSE guard.value
           IN \/ guard.operator = "is_null" /\ record[guard.field] \notin {NULL, UNDEF}
              \/ guard.operator = "equals" /\ record[guard.field] # wanted}

\* C1: a transition is applied only if its trigger is the requested one and
\* its `from` is the status of the record as loaded; a request for which the
\* contract has no such transition is answered 409 CONFLICT, with "Cannot
\* <trigger>" and the current status when the trigger exists for another
\* state and "Unknown trigger" when no transition has the trigger, and the
\* store is unchanged.
C1_OnlyEligibleTransition ==
  [][LET inv == last'
         record == db[inv.id]
     IN /\ inv.transition # 0 =>
             /\ stateMachine.transitions[inv.transition].trigger = inv.trigger
             /\ stateMachine.transitions[inv.transition].from = record["status"]
        /\ db' # db => inv.transition \in EligibleFor(inv.trigger, record["status"])
        /\ ( /\ inv.callerId \in Callers
             /\ record # NoResource
             /\ inv.throwAt \notin {"findById", "findTransition"}
             /\ EligibleFor(inv.trigger, record["status"]) = {} )
           => /\ Len(inv.res) = 1
              /\ StatusOf(inv) = 409
              /\ CodeOf(inv) = "CONFLICT"
              /\ MessageOf(inv) =
                   IF WithTrigger(inv.trigger) # {}
                   THEN <<"Cannot", inv.trigger, record["status"]>>
                   ELSE <<"Unknown trigger", inv.trigger>>
              /\ inv.transition = 0
              /\ db' = db
    ]_vars

C1_Witness ==
  /\ StatusOf(last) = 409
  /\ last.throwAt = "none"
  /\ MessageOf(last) = <<"Cannot", last.trigger, db[last.id]["status"]>>
  /\ WithTrigger(last.trigger) # {}

\* C2: when a named guard of the matched transition fails, the response is
\* 409 CONFLICT, no effect is applied, update is not called and the stored
\* record is exactly what it was.
C2_GuardFailureLeavesNoTrace ==
  [][LET inv == last'
         record == db[inv.id]
     IN ( /\ inv.transition # 0
          /\ inv.throwAt \notin {"findById", "findTransition", "evaluateGuards"}
          /\ FailingGuards(inv.transition, record, inv.callerId) # {} )
        => /\ StatusOf(inv) = 409
           /\ CodeOf(inv) = "CONFLICT"
           /\ MessageOf(inv)[1] = "Guard"
           /\ inv.updated = NoResource
           /\ \A k \in 1..Len(inv.calls) : inv.calls[k] \notin {"applyEffects", "update"}
           /\ db' = db
    ]_vars

C2_Witness ==
  /\ StatusOf(last) = 409
  /\ last.transition # 0
  /\ last.failedGuard # NULL
  /\ stateMachine.transitions[last.transition].effects # << >>

\* C3: after a 200 the stored status, and the status of the record returned,
\* is the `to` of the matched transition, whatever the effects set.
C3_StatusIsDestination ==
  [][LET inv == last'
     IN StatusOf(inv) = 200 =>
          /\ inv.transition # 0
          /\ db'[inv.id]["status"] = stateMachine.transitions[inv.transition].to
          /\ inv.res[1].body["status"] = stateMachine.transitions[inv.transition].to
          /\ inv.updated["status"] = stateMachine.transitions[inv.transition].to
    ]_vars

\* a 200 for a transition one of whose `set` effects writes another status
C3_Witness ==
  /\ StatusOf(last) = 200
  /\ \E e \in 1..Len(stateMachine.transitions[last.transition].effects) :
       LET effect == stateMachine.transitions[last.transition].effects[e]
       IN /\ effect.type = "set"
          /\ effect.field = "status"
          /\ effect.value # stateMachine.transitions[last.transition].to
  /\ db[last.id]["status"] = stateMachine.transitions[last.transition].to

\* C4: under the sample contract (claim: pending -> in_progress, guarded by
\* is_null(assignedToId), effect set assignedToId = $caller.id) a claim by
\* caller A of a pending, unassigned record returns 200, stores status
\* in_progress and assignedToId A and persists a diff of exactly {status,
\* assignedToId}; a claim by any caller of a record that is in_progress
\* returns 409 and leaves assignedToId as it was.
C4_ClaimThenConflict ==
  [][LET inv == last'
         record == db[inv.id]
     IN ( /\ stateMachine = sampleStateMachine
          /\ inv.trigger = "claim"
          /\ inv.callerId \in Callers
          /\ record # NoResource )
        => /\ ( /\ record["status"] = "pending"
                /\ record["assignedToId"] \in {NULL, UNDEF}
                /\ inv.throwAt = "none" )
              => /\ StatusOf(inv) = 200
                 /\ db'[inv.id]["status"] = "in_progress"
                 /\ db'[inv.id]["assignedToId"] = inv.callerId
                 /\ Keys(inv.diff) = {"status", "assignedToId"}
                 /\ inv.diff["status"] = "in_progress"
                 /\ inv.diff["assignedToId"] = inv.callerId
                 /\ db'[inv.id]["priority"] = record["priority"]
                 /\ inv.res[1].body = db'[inv.id]
           /\ record["status"] = "in_progress"
              => /\ StatusOf(inv) \in {409, 500}
                 /\ inv.throwAt = "none" => StatusOf(inv) = 409
                 /\ db'[inv.id] = record
    ]_vars

\* a claim by the other worker, refused after an earlier claim succeeded
C4_Witness ==
  /\ stateMachine = sampleStateMachine
  /\ created[last.id]["status"] = "pending"
  /\ last.trigger = "claim"
  /\ StatusOf(last) = 409
  /\ last.callerId \in Callers
  /\ db[last.id]["status"] = "in_progress"
  /\ db[last.id]["assignedToId"] \in Callers \ {last.callerId}

\* every named guard of transition k passes on this record for this caller
AllGuardsPass(k, record, callerId) == FailingGuards(k, record, callerId) = {}

\* C5: a stored status changes only in a step whose request returned 200,
\* and then from t.from to t.to for a transition t of the contract with the
\* requested trigger whose guards all passed; so a status is always the
\* record's initial one or the `to` of a transition of the contract.
C5_StatusFollowsContract ==
  /\ [][LET inv == last'
        IN \A id \in Ids :
             db'[id]["status"] # db[id]["status"] =>
               /\ id = inv.id
               /\ StatusOf(inv) = 200
               /\ \E k \in WithTrigger(inv.trigger) :
                    /\ stateMachine.transitions[k].from = db[id]["status"]
                    /\ stateMachine.transitions[k].to = db'[id]["status"]
                    /\ AllGuardsPass(k, db[id], inv.callerId)
       ]_vars
  /\ [](\A id \in Ids :
          \/ db[id]["status"] = created[id]["status"]
          \/ \E k \in 1..Len(stateMachine.transitions) :
               stateMachine.transitions[k].to = db[id]["status"])

\* a 200 that moved a record out of a status that was not its initial one
C5_Witness ==
  /\ StatusOf(last) = 200
  /\ db[last.id]["status"] # created[last.id]["status"]
  /\ db[last.id]["status"] # last.resource["status"]
  /\ last.resource["status"] # created[last.id]["status"]

\* C6: the object passed to update holds exactly the keys whose value in the
\* updated copy differs from the loaded record's, each with the updated
\* value; a key left unchanged (status on a self-transition, a field set to
\* the value it had) is not in it.
C6_DiffIsExactlyTheChanges ==
  [][LET inv == last'
         record == db[inv.id]
     IN CallsUpdate(inv) =>
          /\ inv.resource = record
          /\ \A f \in Fields :
               /\ f \in Keys(inv.diff) <=> inv.updated[f] # record[f]
               /\ f \in Keys(inv.diff) => inv.diff[f] = inv.updated[f]
          /\ StatusOf(inv) = 200 =>
               \A f \in Fields :
                 /\ f \in Keys(inv.diff) <=> db'[inv.id][f] # record[f]
                 /\ f \in Keys(inv.diff) => db'[inv.id][f] = inv.diff[f]
    ]_vars

\* a self-transition whose diff holds neither status nor a field that one of
\* its `set` effects wrote
C6_Witness ==
  /\ StatusOf(last) = 200
  /\ stateMachine.transitions[last.transition].from
       = stateMachine.transitions[last.transition].to
  /\ "status" \notin Keys(last.diff)
  /\ \E e \in 1..Len(stateMachine.transitions[last.transition].effects) :
       LET effect == stateMachine.transitions[last.transition].effects[e]
       IN /\ effect.type = "set"
          /\ effect.field # "status"
          /\ effect.field \notin Keys(last.diff)

\* C7: every request gets exactly one response, chosen by the first check
\* that applies: no caller id -> 400, before the store is read or a
\* transition looked up; unknown id -> 404; no eligible transition -> 409; a
\* failed guard -> 409; otherwise 200.  update is called only on the path
\* that ends in 200, or in 500 when update itself throws.  (A call that
\* throws ends the request with 500 at that point.)
C7_FirstFailingCheckDecides ==
  [][LET inv == last'
         record == db[inv.id]
         eligible == EligibleFor(inv.trigger, record["status"])
     IN /\ Len(inv.res) = 1
        /\ IF inv.callerId \notin Callers
           THEN StatusOf(inv) = 400 /\ inv.calls = << >>
           ELSE IF inv.throwAt = "findById"
           THEN StatusOf(inv) = 500 /\ inv.calls = <<"findById">>
           ELSE IF record = NoResource
           THEN StatusOf(inv) = 404 /\ inv.calls = <<"findById">>
           ELSE IF inv.throwAt = "findTransition"
           THEN StatusOf(inv) = 500
           ELSE IF eligible = {}
           THEN StatusOf(inv) = 409 /\ inv.calls = <<"findById", "findTransition">>
           ELSE IF inv.throwAt = "evaluateGuards"
           THEN StatusOf(inv) = 500
           ELSE IF \E k \in eligible :
                     /\ \A j \in eligible : k <= j
                     /\ FailingGuards(k, record, inv.callerId) # {}
           THEN /\ StatusOf(inv) = 409
                /\ inv.calls = <<"findById", "findTransition", "evaluateGuards">>
           ELSE IF inv.throwAt = "applyEffects"
           THEN StatusOf(inv) = 500
           ELSE /\ StatusOf(inv) = (IF inv.throwAt = "update" THEN 500 ELSE 200)
                /\ inv.calls = <<"findById", "findTransition", "evaluateGuards",
                                 "applyEffects", "update">>
        /\ CallsUpdate(inv) =>
             \/ StatusOf(inv) = 200
             \/ StatusOf(inv) = 500 /\ inv.throwAt = "update"
        /\ db' # db => StatusOf(inv) = 200 /\ CallsUpdate(inv)
    ]_vars

\* a request with no caller id for an id the store does not hold
C7_Witness ==
  /\ StatusOf(last) = 400
  /\ last.callerId = UNDEF
  /\ db[last.id] = NoResource
  /\ last.calls = << >>

\* the call the invocation was in when it threw, if it threw
Raised(inv) ==
  /\ inv.throwAt # "none"
  /\ inv.calls # << >>
  /\ inv.calls[Len(inv.calls)] = inv.throwAt

\* C8 as stated: when a step of the handler throws, the response is 500
\* INTERNAL_ERROR and its `message` is the exception's message.
C8_MessageIsExceptionMessage ==
  Raised(last) =>
    /\ StatusOf(last) = 500
    /\ CodeOf(last) = "INTERNAL_ERROR"
    /\ MessageOf(last) = <<last.err>>

\* C8: when a step of the handler (the store's read or update, the
\* transition lookup, guard evaluation, effect application) throws, the
\* response is 500 INTERNAL_ERROR, its `message` is the fixed text "An
\* unexpected error occurred" and the exception's message is the `message` of
\* the single entry of `details`; no other response is a 500.
C8_ExceptionMessageInDetails ==
  /\ Raised(last) =>
       /\ Len(last.res) = 1
       /\ StatusOf(last) = 500
       /\ CodeOf(last) = "INTERNAL_ERROR"
       /\ MessageOf(last) = <<"An unexpected error occurred">>
       /\ Len(last.res[1].details) = 1
       /\ last.res[1].details[1].message = <<last.err>>
  /\ StatusOf(last) = 500 => Raised(last)

\* update threw, after every earlier step had passed
C8_Witness ==
  /\ Raised(last)
  /\ last.throwAt = "update"
  /\ StatusOf(last) = 500
  /\ last.err = "disk I/O error"

\* C9: an invocation runs from its read to its write with no step of another
\* request in between (no invocation is ever left holding a loaded record);
\* hence, under a contract whose claim transitions all leave pending for
\* another state, are guarded by is_null(assignedToId) and set assignedToId
\* to the caller, of the claim requests made on a record with no other
\* successful transition in between at most one returns 200, and the stored
\* assignedToId is that request's caller.
ClaimIsGuardedAssignment ==
  /\ WithTrigger("claim") # {}
  /\ \A k \in WithTrigger("claim") :
       LET t == stateMachine.transitions[k]
       IN /\ t.from = "pending"
          /\ t.to # "pending"
          /\ \E g \in 1..Len(t.guards) :
               /\ t.guards[g] \in DOMAIN stateMachine.guards
               /\ stateMachine.guards[t.guards[g]].operator = "is_null"
               /\ stateMachine.guards[t.guards[g]].field = "assignedToId"
          /\ \E e \in 1..Len(t.effects) :
               t.effects[e] = [type |-> "set", field |-> "assignedToId",
                               value |-> "$caller.id"]

C9_AtMostOneClaimWins ==
  /\ \A s \in Slots : pc[s] = "idle"
  /\ ClaimIsGuardedAssignment =>
       \A id \in Ids :
         /\ Cardinality(claimed[id]) <= 1
         /\ claimed[id] # {} => claimed[id] = {db[id]["assignedToId"]}

\* worker-2 holds the record and the latest claim, by worker-1, was refused
C9_Witness ==
  /\ ClaimIsGuardedAssignment
  /\ claimed["task-1"] = {"worker-2"}
  /\ last.id = "task-1"
  /\ last.trigger = "claim"
  /\ last.callerId = "worker-1"
  /\ last.throwAt = "none"
  /\ StatusOf(last) # 200

\* C10: the handler's write leaves alone every field the transition did not
\* change: a field whose value in the updated copy equals the loaded value
\* keeps the value the store holds at the time of the write, also when
\* another writer has changed it since the handler loaded the record.
C10_UnchangedFieldsNotOverwritten ==
  [][\A s \in Slots :
       (pc[s] = "loaded" /\ pc'[s] = "idle") =>
         \A f \in Fields :
           inflight[s].updated[f] = inflight[s].resource[f] =>
             db'[inflight[s].id][f] = db[inflight[s].id][f]
    ]_vars

\* a 200 whose returned record holds, in a field the transition did not
\* change, a value that differs from the one the handler had loaded
C10_Witness ==
  /\ StatusOf(last) = 200
  /\ \E f \in Fields :
       /\ last.updated[f] = last.resource[f]
       /\ last.res[1].body[f] # last.resource[f]
       /\ db[last.id][f] = last.res[1].body[f]

\* C23: nothing is checked between an invocation's read and its write. An
\* invocation that holds a loaded record passed the transition lookup and the
\* guards on the record as it read it; its write returns 200 and stores every
\* field of its diff whatever the store holds by then, so of two requests
\* that both read before either writes both return 200 and the later write
\* replaces the fields the earlier one wrote.
C23_WriteIsNeverRefused ==
  /\ [](\A s \in Slots :
          pc[s] = "loaded" =>
            LET inv == inflight[s]
            IN /\ inv.transition \in WithTrigger(inv.trigger)
               /\ stateMachine.transitions[inv.transition].from = inv.resource["status"]
               /\ AllGuardsPass(inv.transition, inv.resource, inv.callerId))
  /\ [][\A s \in Slots :
          (pc[s] = "loaded" /\ pc'[s] = "idle") =>
            LET inv == inflight[s]
            IN /\ StatusOf(last') = 200
               /\ last'.callerId = inv.callerId
               /\ \A f \in Fields :
                    db'[inv.id][f] = IF inv.diff[f] # UNDEF THEN inv.diff[f]
                                    ELSE db[inv.id][f]
       ]_vars

\* two callers have claimed one pending record: both read it unassigned, both
\* claims returned 200, and the record is assigned to the later writer
C23_Witness ==
  /\ ClaimIsGuardedAssignment
  /\ StatusOf(last) = 200
  /\ last.trigger = "claim"
  /\ last.resource["status"] = "pending"
  /\ last.resource["assignedToId"] = NULL
  /\ claimed[last.id] = Callers
  /\ db[last.id]["assignedToId"] = last.callerId
  /\ nother = 0

\* a status that no transition of the contract leaves
Terminal(status) ==
  \A k \in 1..Len(stateMachine.transitions) :
    stateMachine.transitions[k].from # status

\* C29: once the stored status of a record is one that no transition of the
\* contract has as `from`, every request on it, for any trigger and caller,
\* returns 409 (or 400, 404, 500), never 200, and its stored status does not
\* change.
C29_TerminalStatusIsFinal ==
  [][\A id \in Ids :
       (db[id] # NoResource /\ Terminal(db[id]["status"])) =>
         /\ db'[id]["status"] = db[id]["status"]
         /\ last'.id = id => StatusOf(last') \in {400, 404, 409, 500}
    ]_vars

\* the worker a completed or cancelled record is assigned to asked for a
\* transition the contract has, and got a 409
C29_Witness ==
  /\ Terminal(db[last.id]["status"])
  /\ last.resource = db[last.id]
  /\ last.resource["status"] # created[last.id]["status"]
  /\ WithTrigger(last.trigger) # {}
  /\ last.callerId = db[last.id]["assignedToId"]
  /\ StatusOf(last) = 409
  /\ CodeOf(last) = "CONFLICT"

\* C30: the record the handler loaded is never modified. On every path the
\* loaded record is absent (no read, a failed read, a 404) or holds, field by
\* field, the values the store held when the request arrived; on 200 and 409
\* it is that record; effects and status go to a copy, and the diff holds
\* the fields of the copy that differ from those unmodified values.
C30_LoadedRecordIsNotModified ==
  [][LET inv == last'
     IN /\ inv.resource \in {NoResource, db[inv.id]}
        /\ StatusOf(inv) \in {200, 409} => inv.resource = db[inv.id]
        /\ inv.updated # NoResource =>
             /\ inv.resource = db[inv.id]
             /\ \A f \in Fields :
                  inv.diff[f] = IF f \in Keys(inv.updated) /\ inv.updated[f] # db[inv.id][f]
                                THEN inv.updated[f] ELSE UNDEF
    ]_vars

\* a 200 whose copy differs from the loaded record in two fields, the loaded
\* record still being the one created
C30_Witness ==
  /\ StatusOf(last) = 200
  /\ last.resource = created[last.id]
  /\ Cardinality({f \in Fields : last.updated[f] # last.resource[f]}) = 2
  /\ Keys(last.diff) = {f \in Fields : last.updated[f] # last.resource[f]}
  /\ db[last.id] = last.updated

\* ------------------------------------------------------------------------
\* Properties of the path functions
\* ------------------------------------------------------------------------
\* a non-array object: neither null, nor a scalar, nor an array, nor absent
IsPlainObject(h, v) == v.t = "ref" /\ h[v.r].kind = "obj"

\* the union of the keys of two objects, those of b winning
MergedJson(a, b) ==
  [t |-> "obj",
   o |-> [k \in DOMAIN a.o \cup DOMAIN b.o |->
            IF k \in DOMAIN b.o THEN b.o[k] ELSE a.o[k]]]

\* C12: a setAtPath that returns leaves at the leaf the union of the old and
\* the new value (new keys winning) when both are non-array objects, and in
\* every other case (either is an array, a scalar, null or absent) exactly the
\* new value.
C12_SetAtPathMergeLaw ==
  [][(call'.op = "setAtPath" /\ ~call'.threw) =>
       LET existing == resolvePath(heap, Doc, call'.path)
           value == call'.value
           after == Json(heap', resolvePath(heap', Doc, call'.path))
       IN IF IsPlainObject(heap, existing) /\ IsPlainObject(heap', value)
          THEN after = MergedJson(Json(heap, existing), Json(heap', value))
          ELSE after = Json(heap', value)]_vars

\* the object holding the leaf of a path, and the leaf's key
ParentOf(h, path) == resolveFrom(h, Doc, Front(CleanParts(path)), 1)

LeafOf(path) == CleanParts(path)[Len(CleanParts(path))]

KeysOf(h, v) == IF v.t = "ref" THEN DOMAIN h[v.r].props ELSE {}

\* C15: a renameAtPath that returns, for every document, path and newName:
\* when the parent exists and has the source key it returns true, the parent
\* then holds under newName exactly the value that was under the old key, the
\* old key is gone and every other sibling is unchanged; otherwise it returns
\* false and the document is unchanged.
C15_RenameMovesTheValue ==
  [][(call'.op = "renameAtPath" /\ ~call'.threw) =>
       LET parent == ParentOf(heap, call'.path)
           oldName == LeafOf(call'.path)
           newName == call'.newName
       IN IF HasOwn(heap, parent, oldName)
          THEN /\ call'.ret = TRUE
               /\ HasOwn(heap', parent, newName)
               /\ Json(heap', Get(heap', parent, newName))
                    = Json(heap, Get(heap, parent, oldName))
               /\ (oldName # newName => ~HasOwn(heap', parent, oldName))
               /\ \A k \in KeysOf(heap, parent) \ {oldName, newName} :
                    /\ HasOwn(heap', parent, k)
                    /\ Json(heap', Get(heap', parent, k))
                         = Json(heap, Get(heap, parent, k))
          ELSE /\ call'.ret = FALSE
               /\ Json(heap', Doc) = Json(heap, Doc)]_vars

\* C16: removeAtPath never throws; when every intermediate segment exists (the
\* parent of the leaf is an object) the leaf key is deleted and every other key
\* of the document is unchanged; when an intermediate segment is absent, or
\* holds null or a scalar, the document is unchanged.
C16_RemoveDeletesOrLeavesAlone ==
  [][call'.op = "removeAtPath" =>
       LET parent == ParentOf(heap, call'.path)
           leaf == LeafOf(call'.path)
       IN /\ ~call'.threw
          /\ IF parent.t = "ref"
             THEN /\ ~HasOwn(heap', parent, leaf)
                  /\ \A k \in KeysOf(heap, parent) \ {leaf} :
                       HasOwn(heap', parent, k)
                         /\ Get(heap', parent, k) = Get(heap, parent, k)
                  /\ \A a \in DOMAIN heap \ {parent.r} : heap'[a] = heap[a]
             ELSE Json(heap', Doc) = Json(heap, Doc)]_vars

\* the segments of a path, and whether the first i of them exist in the
\* document (a key that holds null exists)
Segments(path) == IF path[1] = "$" THEN Tail(path) ELSE path

SegmentExists2(h, obj, segs, i) ==
  HasOwn(h, resolveFrom(h, obj, Prefix(segs, i - 1), 1), segs[i])

SegmentExists(h, segs, i) == SegmentExists2(h, Doc, segs, i)

\* C17: checkPathExists returns rootExists = the first segment is a key of the
\* document, fullPathExists = every segment exists along the path, missingAt =
\* the shortest prefix that does not exist, or null exactly when the root is
\* missing or the full path exists; rootExists equals rootExists(doc, path),
\* and the `$.` form and the bare form of the path give the same answer.
C17_CheckPathExistsLocatesTheGap ==
  [][call'.op = "checkPathExists" =>
       LET segs == Segments(call'.path)
           ret == call'.ret
           root == segs[1] \in KeysOf(heap, Doc)
           full == \A i \in 1..Len(segs) : SegmentExists(heap, segs, i)
           gaps == {i \in 1..Len(segs) : ~SegmentExists(heap, segs, i)}
       IN /\ ~call'.threw
          /\ ret.rootExists = root
          /\ ret.fullPathExists = full
          /\ IF ~root \/ full
             THEN ret.missingAt = << >>
             ELSE \E i \in gaps : /\ \A j \in gaps : i <= j
                                  /\ ret.missingAt = Prefix(segs, i)
          /\ ret.rootExists = rootExists(heap, Doc, call'.path)
          /\ ret = checkPathExists(heap, Doc, segs)
          /\ ret = checkPathExists(heap, Doc, <<"$">> \o segs)]_vars

\* the spec's example: '$.Person.properties.age.enum' stops at Person.properties.age
C17_Witness ==
  /\ call.op = "checkPathExists"
  /\ call.path = <<"$", "Person", "properties", "age", "enum">>
  /\ call.ret = [rootExists |-> TRUE, fullPathExists |-> FALSE,
                 missingAt |-> <<"Person", "properties", "age">>]

\* ------------------------------------------------------------------------
\* Properties of applyOverlay
\* ------------------------------------------------------------------------
\* an iteration of the loop has just processed run'.action
Processed == run.pc = "loop" /\ run'.i = run.i + 1

RootOf(action) == Segments(action.target)[1]

IsUpdate(action) ==
  ~action.remove /\ action.rename = UNDEF /\ action.update # JsUndefined

\* C11: whatever the overlay (updates, removes, renames, no actions at all),
\* the spec passed to applyOverlay is deep-equal to its value before the call
\* at every point of the call and after it returns: changes appear in the
\* result only.
C11_SpecIsNotMutated == Json(heap, run.spec) = run.before

\* an overlay that removes and updates has returned a result that differs
\* from the spec
C11_Witness ==
  /\ run.pc = "returned"
  /\ Json(heap, run.result) # run.before
  /\ \E i, j \in 1..Len(run.overlay.items) :
       run.overlay.items[i].remove /\ IsUpdate(run.overlay.items[j])

\* C13: an action whose root segment is not a key of the working document
\* when the action is processed changes nothing: the result is the same
\* document, with no key created, and no warning is added.
C13_MissingRootIsSkipped ==
  [][(Processed /\ run'.action.target # << >>
        /\ RootOf(run'.action) \notin KeysOf(heap, run.result)) =>
       /\ run'.pc = "loop"
       /\ Json(heap', run.result) = Json(heap, run.result)
       /\ KeysOf(heap', run.result) = KeysOf(heap, run.result)
       /\ run'.warnings = run.warnings]_vars

\* an update of Person was skipped because the first action renamed Person
C13_Witness ==
  /\ run.i = 2
  /\ run.overlay.items[1].rename = "Individual"
  /\ IsUpdate(run.action)
  /\ RootOf(run.action) = "Person"
  /\ KeysOf(heap, run.result) = {"Individual"}
  /\ run.warnings = << >>

\* C14: an action whose root exists but whose full path does not adds the
\* 'does not exist in base schema' warning naming the description (or the raw
\* target) and the missing sub-path, unless the target ends in `.properties`
\* and the update is an object; the warning does not block the action: an
\* update is applied and the result holds the update value at the target.
C14_WarningNeverBlocks ==
  [][(Processed /\ run'.action.target # << >>
        /\ RootOf(run'.action) \in KeysOf(heap, run.result)
        /\ \E i \in 1..Len(Segments(run'.action.target)) :
              ~SegmentExists2(heap, run.result, Segments(run'.action.target), i)) =>
       LET action == run'.action
           segs == Segments(action.target)
           gaps == {i \in 1..Len(segs) : ~SegmentExists2(heap, run.result, segs, i)}
           first == CHOOSE i \in gaps : \A j \in gaps : i <= j
           exempt == /\ segs[Len(segs)] = "properties" /\ Len(action.target) >= 2
                     /\ action.update.t = "ref"
       IN /\ run'.warnings =
               IF exempt THEN run.warnings
               ELSE Append(run.warnings,
                           MissingWarning(Prefix(segs, first), ActionDesc(action)))
          /\ IsUpdate(action) =>
               /\ run'.pc = "loop"
               /\ Json(heap', resolvePath(heap', run.result, action.target))
                    = Json(heap', action.update)]_vars

\* C24: applyOverlay never raises to its caller: for every document and every
\* overlay whose actions have string targets the call ends by returning a
\* result and a warnings list, also when an intermediate segment of a target
\* holds null or a scalar.
C24_ApplyOverlayNeverRaises == run.pc # "threw"

\* C25: applyOverlay leaves the overlay object unchanged: the update value of
\* every action is, at every point of the call and after it, deep-equal to
\* its value before the call, also when a later action targets a path inside
\* a value that an earlier action inserted.
C25_OverlayIsNotMutated ==
  \A i \in 1..Len(run.overlay.items) :
    Json(heap, run.overlay.items[i].update) = run.overlayBefore[i]

\* an action with none of `remove: true`, `rename` and `update`
IsEmptyAction(action) ==
  ~action.remove /\ action.rename = UNDEF /\ action.update = JsUndefined

\* C27: an action with a target and none of `remove: true`, `rename` and
\* `update`, and an action with no target, leave the result and the warnings
\* as they were; an overlay whose `actions` is missing or not a list returns
\* the copy of the spec and no warning.
C27_EmptyActionIsNoOp ==
  [][/\ (Processed /\ (run'.action.target = << >> \/ IsEmptyAction(run'.action))) =>
          /\ run'.pc = "loop"
          /\ Json(heap', run.result) = Json(heap, run.result)
          /\ run'.warnings = run.warnings
     /\ (run.pc = "called" /\ run.overlay.actions # "array") =>
          /\ run'.pc = "returned"
          /\ Json(heap', run'.result) = run.before
          /\ run'.warnings = << >>]_vars

\* C27 as the code has it: an action with a target and none of `remove: true`,
\* `rename` and `update` leaves the result as it was and never throws; it
\* adds the 'does not exist in base schema' warning, with its description or
\* raw target, when the root exists and the full target path does not, and
\* no warning otherwise. An action with no target changes neither, and an
\* overlay whose `actions` is missing or not a list returns the copy of the
\* spec and no warning.
C27_EmptyActionLeavesTheResult ==
  [][/\ (Processed /\ run'.action.target = << >>) =>
          /\ run'.pc = "loop"
          /\ Json(heap', run.result) = Json(heap, run.result)
          /\ run'.warnings = run.warnings
     /\ (Processed /\ run'.action.target # << >> /\ IsEmptyAction(run'.action)) =>
          LET action == run'.action
              segs == Segments(action.target)
              full == \A i \in 1..Len(segs) : SegmentExists2(heap, run.result, segs, i)
          IN /\ run'.pc = "loop"
             /\ Json(heap', run.result) = Json(heap, run.result)
             /\ IF RootOf(action) \in KeysOf(heap, run.result) /\ ~full
                THEN /\ Len(run'.warnings) = Len(run.warnings) + 1
                     /\ SubSeq(run'.warnings, 1, Len(run.warnings)) = run.warnings
                     /\ run'.warnings[Len(run'.warnings)].text = "does not exist in base schema"
                     /\ run'.warnings[Len(run'.warnings)].action = ActionDesc(action)
                ELSE run'.warnings = run.warnings
     /\ (run.pc = "called" /\ run.overlay.actions # "array") =>
          /\ run'.pc = "returned"
          /\ Json(heap', run'.result) = run.before
          /\ run'.warnings = << >>]_vars

\* an overlay made of one action with a target and nothing to do has
\* returned the spec unchanged and one warning
C27_Witness ==
  /\ run.pc = "returned"
  /\ Len(run.overlay.items) = 1
  /\ run.action.target # << >>
  /\ IsEmptyAction(run.action)
  /\ Json(heap, run.result) = run.before
  /\ Len(run.warnings) = 1

\* C28: each action adds at most one warning; a rename whose source key does
\* not exist while the root does adds exactly the 'does not exist in base
\* schema' warning and leaves the result unchanged; the 'Rename failed'
\* warning is added only when the rename fails although the full target path
\* exists.
C28_AtMostOneWarningPerAction ==
  [][Processed =>
       LET action == run'.action
           segs == Segments(action.target)
           added == Len(run'.warnings) - Len(run.warnings)
           full == \A i \in 1..Len(segs) : SegmentExists2(heap, run.result, segs, i)
       IN /\ added \in {0, 1}
          /\ Len(run'.warnings) <= run'.i
          /\ ( /\ action.target # << >> /\ ~action.remove /\ action.rename # UNDEF
               /\ RootOf(action) \in KeysOf(heap, run.result)
               /\ ~full ) =>
               /\ run'.pc = "loop"
               /\ added = 1
               /\ run'.warnings[Len(run'.warnings)].text = "does not exist in base schema"
               /\ Json(heap', run.result) = Json(heap, run.result)
          /\ (added = 1 /\ run'.warnings[Len(run'.warnings)].text = "Rename failed") =>
               (action.rename # UNDEF /\ full)]_vars

\* ------------------------------------------------------------------------
\* Properties of the RPC routes and of the RPC overlay generator
\* ------------------------------------------------------------------------
HasTransitionList(doc) ==
  "transitions" \in DOMAIN doc /\ doc.transitions.kind = "list"

\* the first API spec named after the state machine's domain exists and has
\* a GET endpoint with a path parameter
HasGetItemEndpoint(apiSpecs, sm) ==
  \E a \in 1..Len(apiSpecs) :
    /\ apiSpecs[a].name = sm.domain
    /\ \A b \in 1..(a - 1) : apiSpecs[b].name # sm.domain
    /\ \E e \in 1..Len(apiSpecs[a].endpoints) :
         /\ apiSpecs[a].endpoints[e].method \in {"GET", "get"}
         /\ \E k \in 1..Len(apiSpecs[a].endpoints[e].path) :
              apiSpecs[a].endpoints[e].path[k].kind = "param"

\* the path of that endpoint
GetItemPath(apiSpecs, sm) ==
  LET a == CHOOSE a \in 1..Len(apiSpecs) :
             /\ apiSpecs[a].name = sm.domain
             /\ \A b \in 1..(a - 1) : apiSpecs[b].name # sm.domain
      items == {e \in 1..Len(apiSpecs[a].endpoints) :
                  /\ apiSpecs[a].endpoints[e].method \in {"GET", "get"}
                  /\ \E k \in 1..Len(apiSpecs[a].endpoints[e].path) :
                       apiSpecs[a].endpoints[e].path[k].kind = "param"}
  IN apiSpecs[a].endpoints[CHOOSE e \in items : \A j \in items : e <= j].path

\* the number of transitions of the first n state machines that have a GET
\* item endpoint
RECURSIVE TransitionsOfMatched(_)
TransitionsOfMatched(n) ==
  IF n = 0 THEN 0
  ELSE LET sm == routes.stateMachines[n]
       IN TransitionsOfMatched(n - 1)
            + IF HasGetItemEndpoint(routes.apiSpecs, sm)
              THEN Len(sm.stateMachine.transitions.items) ELSE 0

Registering == routes.pc = "loop" /\ routes'.i = routes.i + 1

\* C21: a state machine whose domain matches an API spec that has a GET item
\* endpoint adds one POST route per transition, in order, at
\* <itemPath>/<trigger>, after the routes registered so far; a state machine
\* with no matching API spec or no item endpoint adds no route, and the
\* registration goes on with the next one: when the call returns, the routes
\* are those of all the state machines that have an item endpoint.
C21_OneRoutePerTransition ==
  /\ [][Registering =>
          LET sm == routes'.stateMachines[routes'.i]
              before == Len(routes.registered)
          IN /\ ~HasGetItemEndpoint(routes.apiSpecs, sm) =>
                  /\ routes'.pc = "loop"
                  /\ routes'.app = routes.app
                  /\ routes'.registered = routes.registered
             /\ (HasGetItemEndpoint(routes.apiSpecs, sm)
                   /\ HasTransitionList(sm.stateMachine)) =>
                  LET transitions == sm.stateMachine.transitions.items
                      itemPath == GetItemPath(routes.apiSpecs, sm)
                  IN /\ routes'.pc = "loop"
                     /\ Len(routes'.registered) = before + Len(transitions)
                     /\ Len(routes'.app) = Len(routes.app) + Len(transitions)
                     /\ SubSeq(routes'.registered, 1, before) = routes.registered
                     /\ SubSeq(routes'.app, 1, Len(routes.app)) = routes.app
                     /\ \A k \in 1..Len(transitions) :
                          /\ routes'.registered[before + k].method = "POST"
                          /\ routes'.registered[before + k].path =
                               Append(itemPath, Lit(transitions[k].trigger))
                          /\ routes'.registered[before + k].trigger = transitions[k].trigger
                          /\ routes'.app[Len(routes.app) + k].method = "post"
                          /\ routes'.app[Len(routes.app) + k].handler.trigger =
                               transitions[k].trigger
                          /\ routes'.app[Len(routes.app) + k].handler.stateMachine =
                               sm.stateMachine
                          /\ routes'.app[Len(routes.app) + k].path =
                               routes'.registered[before + k].expressPath
       ]_vars
  /\ []((/\ routes.pc = "returned"
         /\ \A n \in 1..Len(routes.stateMachines) :
              HasTransitionList(routes.stateMachines[n].stateMachine)) =>
          /\ Len(routes.registered) = TransitionsOfMatched(Len(routes.stateMachines))
          /\ Len(routes.app) = Len(routes.registered))

\* a state machine with no API spec and one with no item endpoint, before and
\* after a state machine with one: the call has returned its routes
C21_Witness ==
  /\ routes.pc = "returned"
  /\ Len(routes.stateMachines) = 2
  /\ \E n, m \in 1..2 :
       /\ n # m
       /\ ~HasGetItemEndpoint(routes.apiSpecs, routes.stateMachines[n])
       /\ HasGetItemEndpoint(routes.apiSpecs, routes.stateMachines[m])
       /\ HasTransitionList(routes.stateMachines[m].stateMachine)
       /\ Len(routes.registered) = Len(routes.stateMachines[m].stateMachine.transitions.items)
  /\ Len(routes.registered) >= 2
  /\ routes.app[1].path[2].kind = "colon"

\* C26: registering the routes of the contracts discoverStateMachines
\* accepts never raises; a contract whose `transitions` is missing or not a
\* list adds no route and the registration goes on with the next one.
C26_AcceptedContractsNeverAbort ==
  [][Registering =>
       LET sm == routes'.stateMachines[routes'.i]
       IN /\ routes'.pc = "loop"
          /\ ~HasTransitionList(sm.stateMachine) =>
               /\ routes'.app = routes.app
               /\ routes'.registered = routes.registered
    ]_vars

\* the transitions of the contract given to generateOverlay, and the
\* transitions with distinct triggers
GenTransitions == gen.stateMachine.transitions.items

GenUpdate == gen.out.ret.actions[1].update

GenPath(transition) == Append(gen.endpointInfo.itemPath, Lit(transition.trigger))

\* C22: for a contract with a list of transitions the overlay has a single
\* action, on `$.paths`, whose update has exactly as many entries as the
\* contract has transitions, one at <itemPath>/<trigger> for each, each with
\* a POST operation describing that transition.
C22_OnePathPerTransition ==
  (gen.op = "generateOverlay" /\ HasTransitionList(gen.stateMachine)) =>
    /\ ~gen.out.threw
    /\ Len(gen.out.ret.actions) = 1
    /\ gen.out.ret.actions[1].target = <<"$", "paths">>
    /\ Cardinality(DOMAIN GenUpdate) = Len(GenTransitions)
    /\ \A i \in 1..Len(GenTransitions) :
         /\ GenPath(GenTransitions[i]) \in DOMAIN GenUpdate
         /\ GenUpdate[GenPath(GenTransitions[i])].post.description =
              <<GenTransitions[i].trigger, GenTransitions[i].from, GenTransitions[i].to>>

\* C22 as the code has it: the update has one entry per distinct trigger, at
\* <itemPath>/<trigger>, so as many entries as transitions when no two
\* transitions share a trigger; the POST operation of an entry describes the
\* last transition of the list with that trigger.
C22_OnePathPerTrigger ==
  (gen.op = "generateOverlay" /\ HasTransitionList(gen.stateMachine)) =>
    /\ ~gen.out.threw
    /\ Len(gen.out.ret.actions) = 1
    /\ gen.out.ret.actions[1].target = <<"$", "paths">>
    /\ DOMAIN GenUpdate = {GenPath(GenTransitions[i]) : i \in 1..Len(GenTransitions)}
    /\ Cardinality(DOMAIN GenUpdate) =
         Cardinality({GenTransitions[i].trigger : i \in 1..Len(GenTransitions)})
    /\ \A i \in 1..Len(GenTransitions) :
         (\A j \in (i + 1)..Len(GenTransitions) :
            GenTransitions[j].trigger # GenTransitions[i].trigger) =>
           LET operation == GenUpdate[GenPath(GenTransitions[i])].post
           IN /\ operation.description =
                   <<GenTransitions[i].trigger, GenTransitions[i].from, GenTransitions[i].to>>
              /\ operation.operationId = <<GenTransitions[i].trigger, gen.stateMachine.object>>

\* an overlay generated from a contract two of whose three transitions share
\* a trigger: two paths
C22_Witness ==
  /\ gen.op = "generateOverlay"
  /\ HasTransitionList(gen.stateMachine)
  /\ Len(GenTransitions) = 3
  /\ Cardinality(DOMAIN GenUpdate) = 2

\* ------------------------------------------------------------------------
\* Properties of guard evaluation
\* ------------------------------------------------------------------------
\* C18: the guard names are evaluated in list order, a name with no
\* definition being skipped as passing, up to the first guard that fails: the
\* failedGuard reported is the earliest failing name and no guard after it is
\* evaluated; with a null or empty list, or when every guard passes, the
\* result is pass with failedGuard null.
C18_FirstFailingGuardStops ==
  [][call'.op = "evaluateGuards" =>
       LET t == call'.transition
           names == IF "guards" \in DOMAIN t THEN t.guards ELSE << >>
           map == IF "guards" \in DOMAIN call'.sm THEN call'.sm.guards ELSE << >>
           context == [caller |-> [id |-> call'.callerId]]
           Defined(name) == name \in DOMAIN map
           failing == {i \in 1..Len(names) :
                         /\ Defined(names[i])
                         /\ ~evaluateGuard(map[names[i]], call'.resource, context).pass}
           ret == call'.ret
       IN IF failing = {}
          THEN /\ ret.pass
               /\ ret.failedGuard = NULL
               /\ ret.evaluated = SelectSeq(names, Defined)
          ELSE LET first == CHOOSE i \in failing : \A j \in failing : i <= j
               IN /\ ~ret.pass
                  /\ ret.failedGuard = names[first]
                  /\ ret.evaluated = SelectSeq(SubSeq(names, 1, first), Defined)
                  /\ ret.evaluated[Len(ret.evaluated)] = names[first]]_vars

\* two guards that both fail: the first is reported, the second not evaluated
C18_Witness ==
  /\ call.op = "evaluateGuards"
  /\ call.transition = [trigger |-> "claim", guards |-> <<"isLow", "taskIsUnassigned">>]
  /\ call.resource.priority = "high"
  /\ call.resource.assignedToId = "worker-2"
  /\ call.ret.failedGuard = "isLow"
  /\ call.ret.evaluated = <<"isLow">>

\* the guards of transition k that have a definition, and its `set` effects
\* on field f
DefinedGuards(k) ==
  {stateMachine.guards[stateMachine.transitions[k].guards[g]] :
     g \in {g \in 1..Len(stateMachine.transitions[k].guards) :
              stateMachine.transitions[k].guards[g] \in DOMAIN stateMachine.guards}}

SetEffectsOn(k, f) ==
  {e \in 1..Len(stateMachine.transitions[k].effects) :
     /\ stateMachine.transitions[k].effects[e].type = "set"
     /\ stateMachine.transitions[k].effects[e].field = f}

Resolved(raw, callerId) ==
  IF raw = "$caller.id" THEN callerId ELSE IF raw = UNDEF THEN NULL ELSE raw

\* C19: when every defined guard of the transition has an operator other
\* than is_null and equals the guards pass whatever the record and the caller;
\* an effect whose type is not `set` changes no field and the `set` effects of
\* the same list are still applied; so a transition made only of such guards
\* and effects succeeds and changes nothing but the status.
C19_UnknownGuardsAndEffectsAreNoOps ==
  [][LET inv == last'
         k == inv.transition
         record == db[inv.id]
     IN (k # 0 /\ inv.throwAt = "none") =>
          /\ (\A guard \in DefinedGuards(k) : guard.operator \notin {"is_null", "equals"})
               => StatusOf(inv) = 200
          /\ StatusOf(inv) = 200 =>
               \A f \in Fields \ {"status"} :
                 LET sets == SetEffectsOn(k, f)
                     lastSet == CHOOSE e \in sets : \A x \in sets : x <= e
                 IN db'[inv.id][f] =
                      IF sets = {} THEN record[f]
                      ELSE Resolved(stateMachine.transitions[k].effects[lastSet].value,
                                    inv.callerId)
          /\ ( /\ \A guard \in DefinedGuards(k) : guard.operator \notin {"is_null", "equals"}
               /\ \A f \in Fields : SetEffectsOn(k, f) = {} )
               => /\ StatusOf(inv) = 200
                  /\ db'[inv.id] = [record EXCEPT !["status"] = stateMachine.transitions[k].to]
    ]_vars

\* the `release` of the second contract (one guard of unknown operator, one
\* effect of unknown type) has succeeded on an assigned record: only the
\* status changed
C19_Witness ==
  /\ stateMachine = edgeStateMachine
  /\ last.trigger = "release"
  /\ StatusOf(last) = 200
  /\ last.resource.status = "in_progress"
  /\ last.resource.assignedToId \in Callers
  /\ db[last.id] = [last.resource EXCEPT !["status"] = "pending"]

\* ------------------------------------------------------------------------
\* Properties of discovery
\* ------------------------------------------------------------------------
\* the files of a directory that are state machine contracts: the name ends
\* in -state-machine.yaml, the content parses, and it has a domain and an
\* object (an empty value counting as none)
ValidFiles(dir) ==
  {file \in DOMAIN dir :
     /\ file.suffix = "-state-machine.yaml"
     /\ dir[file].kind = "yaml"
     /\ "domain" \in DOMAIN dir[file].doc /\ dir[file].doc.domain # ""
     /\ "object" \in DOMAIN dir[file].doc /\ dir[file].doc.object # ""}

\* C20: discoverStateMachines returns exactly one entry for each file of the
\* directory whose name ends in -state-machine.yaml, that parses and that has
\* both domain and object; every other file is skipped without removing or
\* blocking the entries of the valid files; a directory that does not exist
\* gives the empty list.
C20_OneEntryPerValidFile ==
  [][disc'.op # "none" =>
       LET ret == disc'.ret
           specsDir == disc'.specsDir
       IN IF specsDir \notin DOMAIN fs THEN ret = << >>
          ELSE /\ Len(ret) = Cardinality(ValidFiles(fs[specsDir]))
               /\ \A file \in ValidFiles(fs[specsDir]) :
                    \E i \in 1..Len(ret) :
                      /\ ret[i].filePath = <<specsDir, file>>
                      /\ ret[i].stateMachine = fs[specsDir][file].doc
                      /\ disc'.op = "loader" =>
                           /\ ret[i].domain = fs[specsDir][file].doc.domain
                           /\ ret[i].object = fs[specsDir][file].doc.object]_vars

\* a directory with a valid contract and an unparsable one: one entry
C20_Witness ==
  /\ disc.op = "loader"
  /\ disc.specsDir = "specs"
  /\ Len(disc.ret) = 1
  /\ disc.ret[1].domain = "intake"
  /\ \E file \in DOMAIN fs.specs :
       file.suffix = "-state-machine.yaml" /\ fs.specs[file].kind = "invalid"

TypeOK ==
  /\ stateMachine \in Contracts
  /\ Len(last.res) <= 1

====
